---- MODULE Spec2Model ----
(***************************************************************************)
(* A model of the steganography payload pipeline of steganography-py3:     *)
(* the LSB / DCT / DWT / Adaptive embedding algorithms, the                *)
(* EncryptionManager, the 2-byte frame header and the asynchronous         *)
(* encode / decode tasks of SteganographyEngine.                           *)
(*                                                                         *)
(* Python values are records [t, v, exc]: t is the Python type ("bytes",   *)
(* "str", "none") or "raise" for a raised exception, v the sequence of     *)
(* byte values / code points, exc the exception class.  An ndarray is a    *)
(* record [shape, dtype, data, form] with data the row-major flattening;   *)
(* form "values" says data are the samples, form "idct2" says the samples  *)
(* are the unnormalised inverse 2-D DCT of the coefficients in data.       *)
(***************************************************************************)
EXTENDS Integers, Sequences, FiniteSets, TLC

VARIABLES
    pc,          \* position of the caller / of the task being run
    image,       \* the carrier array handed to the algorithm or loaded by the task
    secret_data, \* the payload handed to embed (bytes or str)
    stego,       \* the value returned by embed (an ndarray, None or a raise)
    extracted,   \* the value returned by extract
    capacity,    \* the value returned by get_capacity (-1 before the call)
    algorithm,   \* the key of the algorithm in SteganographyEngine.algorithms
    dct_self,    \* attributes of the DCTSteganography instance: image, coefficients
    adaptive_self, \* attribute of the AdaptiveLSB instance: image
    message,     \* the message of the request (the data, for a direct encrypt call)
    enc_password,    \* the password of the encode request
    enc_method,
    enc_level,
    processed_message, \* the value of _prepare_message (of encrypt, for a direct call)
    decode_password,   \* the password of the decode request
    recovered,     \* the value of _process_extracted_data (of decrypt, for a direct call)
    cipher_log,  \* the encryptions performed so far
    image_file,  \* the image file the request names
    embed_calls, \* number of calls of an algorithm's embed by encode tasks
    encode_result,    \* the result of the future returned by encode_async
    decode_algorithm, \* the algorithm of the decode request
    decode_result,    \* the result of the future returned by decode_async
    quality,          \* the value of analyze_quality or of detect_steganography
    parsed_header,      \* the value of _parse_header
    pool,             \* the encode tasks running on the executor's worker threads
    window            \* the decode tab of the main window: timer, future, callback, dialog

algoVars == <<algorithm, dct_self, adaptive_self>>

arrayVars == <<image, secret_data, stego, extracted, capacity>>

requestVars == <<message, enc_password, enc_method, enc_level>>

cryptoVars == <<processed_message, decode_password, recovered, cipher_log>>

engineVars == <<image_file, embed_calls, encode_result, decode_algorithm, decode_result, quality, parsed_header, pool, window>>

vars == <<pc, arrayVars, algoVars, requestVars, cryptoVars, engineVars>>

----------------------------------------------------------------------------
(* Bounds of the model *)

MaxH == 5
MaxW == 5
MaxPayloadLen == 2

----------------------------------------------------------------------------
(* Python values *)

Bytes(s) == [t |-> "bytes", v |-> s, exc |-> "none"]
Str(s)   == [t |-> "str",   v |-> s, exc |-> "none"]
Raise(e) == [t |-> "raise", v |-> <<>>, exc |-> e]
None     == [t |-> "none",  v |-> <<>>, exc |-> "none"]

IsRaise(x) == x.t = "raise"

Min(a, b) == IF a < b THEN a ELSE b
Max(a, b) == IF a > b THEN a ELSE b

RECURSIVE Flatten(_)
Flatten(ss) == IF ss = <<>> THEN <<>> ELSE Head(ss) \o Flatten(Tail(ss))

\* the sequence f as an explicit tuple (the same value, evaluated once)
Tuple(f) == f \o <<>>

Rep(x, n) == Tuple([i \in 1..n |-> x])

----------------------------------------------------------------------------
(* str.encode('utf-8') and bytes.decode('utf-8'), as CPython computes them *)

Utf8EncodeChar(cp) ==
    IF cp < 128 THEN <<cp>>
    ELSE IF cp < 2048 THEN <<192 + (cp \div 64), 128 + (cp % 64)>>
    ELSE IF cp < 65536
         THEN <<224 + (cp \div 4096), 128 + ((cp \div 64) % 64), 128 + (cp % 64)>>
    ELSE <<240 + (cp \div 262144), 128 + ((cp \div 4096) % 64),
           128 + ((cp \div 64) % 64), 128 + (cp % 64)>>

Utf8Encode(s) == Flatten([i \in 1..Len(s) |-> Utf8EncodeChar(s[i])])

IsCont(b) == b >= 128 /\ b <= 191

\* Number of bytes of s, from position i, that form one well-formed UTF-8
\* sequence (1..4), or minus the number of bytes the decoder reports as one
\* invalid sequence (the maximal ill-formed prefix, at least one byte).
Utf8Step(s, i) ==
    LET b == s[i]
        n == Len(s)
        lo2 == IF b = 224 THEN 160 ELSE IF b = 240 THEN 144 ELSE 128
        hi2 == IF b = 237 THEN 159 ELSE IF b = 244 THEN 143 ELSE 191
        need == IF b < 128 THEN 1 ELSE IF b < 224 THEN 2 ELSE IF b < 240 THEN 3 ELSE 4
        ok2 == i + 1 <= n /\ s[i+1] >= lo2 /\ s[i+1] <= hi2
        ok3 == i + 2 <= n /\ IsCont(s[i+2])
        ok4 == i + 3 <= n /\ IsCont(s[i+3])
    IN  IF b < 128 THEN 1
        ELSE IF b < 194 \/ b > 244 THEN -1
        ELSE IF ~ok2 THEN -1
        ELSE IF need = 2 THEN 2
        ELSE IF ~ok3 THEN -2
        ELSE IF need = 3 THEN 3
        ELSE IF ~ok4 THEN -3
        ELSE 4

Utf8CodePoint(s, i, k) ==
    IF k = 1 THEN s[i]
    ELSE IF k = 2 THEN (s[i] - 192) * 64 + (s[i+1] - 128)
    ELSE IF k = 3 THEN (s[i] - 224) * 4096 + (s[i+1] - 128) * 64 + (s[i+2] - 128)
    ELSE (s[i] - 240) * 262144 + (s[i+1] - 128) * 4096
         + (s[i+2] - 128) * 64 + (s[i+3] - 128)

\* One pass of the decoder over s from position i up to (not including)
\* position stop: the code points decoded, the position reached, and whether
\* every sequence met was well formed.
RECURSIVE Utf8Scan(_, _, _)
Utf8Scan(s, i, stop) ==
    IF i > Len(s) \/ i >= stop THEN [out |-> <<>>, next |-> i, ok |-> TRUE]
    ELSE LET k == Utf8Step(s, i)
             rest == Utf8Scan(s, IF k > 0 THEN i + k ELSE i - k, stop)
         IN  [out |-> (IF k > 0 THEN <<Utf8CodePoint(s, i, k)>> ELSE <<>>) \o rest.out,
              next |-> rest.next,
              ok |-> k > 0 /\ rest.ok]

\* the decoder run over all of s from position i, sixteen positions at a time
RECURSIVE Utf8Decode(_, _)
Utf8Decode(s, i) ==
    IF i > Len(s) THEN [out |-> <<>>, ok |-> TRUE]
    ELSE LET head == Utf8Scan(s, i, i + 16)
             rest == Utf8Decode(s, head.next)
         IN  [out |-> head.out \o rest.out, ok |-> head.ok /\ rest.ok]

\* bytes.decode('utf-8', errors='ignore'): invalid sequences are dropped
Utf8DecodeIgnore(s) == Utf8Decode(s, 1).out

\* bytes.decode('utf-8'): strict, UnicodeDecodeError (a ValueError) if ill-formed
Utf8DecodeStrict(s) ==
    LET d == Utf8Decode(s, 1)
    IN  IF d.ok THEN Str(d.out) ELSE Raise("UnicodeDecodeError")

----------------------------------------------------------------------------
(* ndarrays *)

NumSamples(shape) ==
    IF Len(shape) = 3 THEN shape[1] * shape[2] * shape[3] ELSE shape[1] * shape[2]

\* an array of 8-bit samples
Array(shape, data) ==
    [shape |-> shape, dtype |-> "uint8", data |-> Tuple(data), form |-> "values"]

\* an array of floats with the given values (integers in this model)
FloatArray(shape, data) ==
    [shape |-> shape, dtype |-> "float64", data |-> Tuple(data), form |-> "values"]

\* Python's None where an array is expected
NoArray == [shape |-> <<0, 0>>, dtype |-> "none", data |-> <<>>, form |-> "values"]

Returned(arr) == [t |-> "ndarray", exc |-> "none", v |-> arr]
RaisedArr(e)  == [t |-> "raise", exc |-> e, v |-> NoArray]

\* format(byte, '08b'): the 8 bits of a byte, most significant first
Format08b(b) == Tuple([k \in 1..8 |-> (b \div (2 ^ (8 - k))) % 2])

\* int(byte_str, 2)
IntBase2(bits) ==
    bits[1] * 128 + bits[2] * 64 + bits[3] * 32 + bits[4] * 16
    + bits[5] * 8 + bits[6] * 4 + bits[7] * 2 + bits[8]

----------------------------------------------------------------------------
(* algorithms/lsb.py *)

DefaultMaxLength == 10000

LSBDelimiter == <<0, 0, 0, 0>>

\* embed writing the bits of each byte least significant bit first
LSBEmbedLsbFirst(img, secret) ==
    LET data == IF secret.t = "str" THEN Utf8Encode(secret.v) ELSE secret.v
        withDelim == data \o LSBDelimiter
        Reversed(b) == [j \in 1..8 |-> b[9 - j]]
        binary_data == Flatten([i \in 1..Len(withDelim) |-> Reversed(Format08b(withDelim[i]))])
        total_capacity == NumSamples(img.shape)
    IN  IF Len(binary_data) > total_capacity
        THEN RaisedArr("ValueError")
        ELSE Returned(Array(img.shape,
                      [i \in 1..Len(img.data) |->
                          IF i <= Len(binary_data)
                          THEN (img.data[i] - (img.data[i] % 2)) + binary_data[i]
                          ELSE img.data[i]]))

\* LSBSteganography.embed: the returned array, or the ValueError it raises
LSBEmbed(img, secret) ==
    LET data == IF secret.t = "str" THEN Utf8Encode(secret.v) ELSE secret.v
        withDelim == data \o LSBDelimiter
        binary_data == Flatten([i \in 1..Len(withDelim) |-> Format08b(withDelim[i])])
        total_capacity == NumSamples(img.shape)
    IN  IF Len(binary_data) > total_capacity
        THEN RaisedArr("ValueError")
        ELSE Returned(Array(img.shape,
                      [i \in 1..Len(img.data) |->
                          IF i <= Len(binary_data)
                          THEN (img.data[i] - (img.data[i] % 2)) + binary_data[i]
                          ELSE img.data[i]]))

\* the bytes the extract loop has collected when it stops: it appends one byte
\* per full group of 8 bits and breaks, dropping the last 4 bytes, the first
\* time the last 4 bytes appended are all zero
RECURSIVE LSBCollect(_, _, _)
LSBCollect(bits, i, acc) ==
    IF i + 8 > Len(bits) THEN acc
    ELSE LET byte_val == IntBase2(SubSeq(bits, i + 1, i + 8))
             acc2 == Append(acc, byte_val)
             n == Len(acc2)
         IN  IF n >= 4 /\ SubSeq(acc2, n - 3, n) = LSBDelimiter
             THEN SubSeq(acc2, 1, n - 4)
             ELSE LSBCollect(bits, i + 8, acc2)

\* LSBSteganography.extract: always a str
LSBExtract(img, max_length) ==
    LET nbits == Min(Len(img.data), max_length * 8)
        binary_data == Tuple([i \in 1..nbits |-> img.data[i] % 2])
        extracted_bytes == LSBCollect(binary_data, 0, <<>>)
    IN  Str(Utf8DecodeIgnore(extracted_bytes))

\* get_capacity without the 32 bits reserved for the delimiter
LSBGetCapacityNoReserve(img) ==
    LET total_bits == NumSamples(img.shape)
        usable_bits == total_bits
    IN  Max(0, usable_bits \div 8)

\* LSBSteganography.get_capacity
LSBGetCapacity(img) ==
    LET total_bits == NumSamples(img.shape)
        usable_bits == total_bits - 32
    IN  Max(0, usable_bits \div 8)

----------------------------------------------------------------------------
(* scipy.fftpack.dct / idct along axes 0 and 1, unnormalised (norm=None), in *)
(* exact arithmetic.  The forward transform of an array whose samples all    *)
(* have the value x is 4*H*W*x at frequency (0, 0) of every channel and 0    *)
(* elsewhere; idct(idct(.)) after dct(dct(.)) multiplies by (2H)(2W).        *)

Channels(shape) == IF Len(shape) = 3 THEN shape[3] ELSE 1

IsFlat(arr) ==
    /\ arr.form = "values"
    /\ \A i \in 1..Len(arr.data) : arr.data[i] = arr.data[1]

\* dct(dct(image, axis=0), axis=1): the coefficient array
Dct2(arr) ==
    LET h == arr.shape[1]
        w == arr.shape[2]
        c == Channels(arr.shape)
    IN  CASE arr.form = "idct2" ->
                FloatArray(arr.shape, [i \in 1..Len(arr.data) |-> 4 * h * w * arr.data[i]])
          [] IsFlat(arr) ->
                FloatArray(arr.shape,
                    [i \in 1..Len(arr.data) |-> IF i <= c THEN 4 * h * w * arr.data[i] ELSE 0])

\* idct(idct(coefficients, axis=0), axis=1): kept as the inverse transform of
\* its coefficients
Idct2(coef) == [shape |-> coef.shape, dtype |-> "float64", data |-> coef.data, form |-> "idct2"]

----------------------------------------------------------------------------
(* algorithms/dct.py *)

FreshDCT == [image |-> NoArray, coefficients |-> NoArray]

DefaultExpectedLength == 1000

\* DCTSteganography.embed: <<returned value, instance attributes afterwards>>.
\* embed encodes a str to bytes; _string_to_bits then applies ord() to each
\* element of the bytes object, an int, which is a TypeError.
DCTEmbed(self, img, secret) ==
    LET data == IF secret.t = "str" THEN Utf8Encode(secret.v) ELSE secret.v
        self1 == [self EXCEPT !.image = img]
    IN  IF Len(data) > 0
        THEN <<RaisedArr("TypeError"), self1>>
        ELSE LET coefficients == Dct2(img)
             IN  <<Returned(Idct2(coefficients)), [self1 EXCEPT !.coefficients = coefficients]>>

\* DCTSteganography.extract: reads the coefficients the instance kept from its
\* last embed_data, indexed with the width of the image passed now; the str
\* built by _bits_to_string has no decode method.
DCTExtract(self, img, expected_length) ==
    LET self1 == [self EXCEPT !.image = img]
        length == expected_length
        w == img.shape[2]
        ch == self.coefficients.shape[1]
        cw == self.coefficients.shape[2]
        \* the first i for which coefficients[i // w, i % w] is out of range
        firstBad == IF ch = 0 \/ cw = 0 THEN 0 ELSE IF cw < w THEN cw ELSE ch * w
        outOfRange == firstBad < length
    IN  IF self.coefficients.dtype = "none" THEN <<Raise("ValueError"), self1>>
        ELSE IF length > 0 /\ firstBad = 0 THEN <<Raise("IndexError"), self1>>
        ELSE IF length > 0 /\ Channels(self.coefficients.shape) > 1
             THEN <<Raise("TypeError"), self1>>
        ELSE IF outOfRange THEN <<Raise("IndexError"), self1>>
        ELSE <<Raise("AttributeError"), self1>>

\* DCTSteganography.get_capacity
DCTGetCapacity(img) ==
    LET blocks_h == img.shape[1] \div 8
        blocks_w == img.shape[2] \div 8
        total_blocks == blocks_h * blocks_w * Channels(img.shape)
        usable_bits == total_blocks * 1
    IN  Max(0, usable_bits \div 8)

----------------------------------------------------------------------------
(* algorithms/dwt.py: single-level Haar transform (pywt.dwt2 / idwt2).  The  *)
(* detail subbands of an array whose samples are all equal are exactly 0;    *)
(* the operators below are defined on such arrays.                           *)

CeilHalf(n) == (n + 1) \div 2

\* shape of the array idwt2(dwt2(image)) returns: pywt transforms the last two
\* axes and pads an odd length to the next even one
DWTShape(shape) ==
    IF Len(shape) = 3
    THEN <<shape[1], 2 * CeilHalf(shape[2]), 2 * CeilHalf(shape[3])>>
    ELSE <<2 * CeilHalf(shape[1]), 2 * CeilHalf(shape[2])>>

\* number of coefficients of the horizontal-detail subband cH
DWTDetailSize(shape) ==
    IF Len(shape) = 3
    THEN shape[1] * CeilHalf(shape[2]) * CeilHalf(shape[3])
    ELSE CeilHalf(shape[1]) * CeilHalf(shape[2])

\* DWTSteganography.embed: ord() of an element of a bytes payload is a
\* TypeError; with a str payload the first `cH[row, col] & ~1` on the float
\* subband is a TypeError
DWTEmbed(img, secret) ==
    IF Len(secret.v) > 0 /\ (secret.t = "bytes" \/ DWTDetailSize(img.shape) > 0)
    THEN RaisedArr("TypeError")
    ELSE Returned(FloatArray(DWTShape(img.shape),
            [i \in 1..NumSamples(DWTShape(img.shape)) |-> img.data[1]]))

\* ''.join(chr(int(binary_data[i:i+8], 2)) ...): groups of 8 bits, the last
\* one possibly shorter
RECURSIVE IntOfBits(_)
IntOfBits(bits) ==
    IF bits = <<>> THEN 0 ELSE 2 * IntOfBits(SubSeq(bits, 1, Len(bits) - 1)) + bits[Len(bits)]

BitsToValues(bits) ==
    Tuple([k \in 1..((Len(bits) + 7) \div 8) |->
        IntOfBits(SubSeq(bits, 8 * (k - 1) + 1, Min(8 * k, Len(bits))))])

\* str.rstrip('\x00')
RECURSIVE RStripNul(_)
RStripNul(s) ==
    IF s # <<>> /\ s[Len(s)] = 0 THEN RStripNul(SubSeq(s, 1, Len(s) - 1)) ELSE s

\* DWTSteganography.extract: parity of int(cH[row, col]) for every coefficient
\* of cH.  On a 3-D array pywt transforms the width and channel axes, and
\* cH[row, col] is a vector of ceil(C/2) values: int() of more than one is a
\* TypeError.
DWTExtract(img) ==
    LET binary_data == Rep(0, DWTDetailSize(img.shape))
    IN  IF Len(img.shape) = 3 /\ CeilHalf(img.shape[3]) > 1 /\ DWTDetailSize(img.shape) > 0
        THEN Raise("TypeError")
        ELSE Str(RStripNul(BitsToValues(binary_data)))

\* DWTSteganography.get_capacity
DWTGetCapacity(img) ==
    LET detail_size == (img.shape[1] \div 2) * (img.shape[2] \div 2)
        usable_bits == detail_size * Channels(img.shape)
    IN  Max(0, usable_bits \div 8)

----------------------------------------------------------------------------
(* algorithms/adaptive.py *)

FreshAdaptive == [image |-> NoArray]

\* AdaptiveLSB.embed: adds 1 (bit 1) or subtracts 1 (bit 0) at coefficient
\* (i, j), in row-major order, for as many bits as there are positions; bits
\* beyond H*W are dropped.  On a 3-D array dct_image[i][j] is the vector of
\* all channels at (i, j).
AdaptiveEmbed(self, img, secret) ==
    LET data == IF secret.t = "str" THEN Utf8Encode(secret.v) ELSE secret.v
        binary_data == Flatten([i \in 1..Len(data) |-> Format08b(data[i])])
        c == Channels(img.shape)
        dct_image == Dct2(img)
        modified ==
            [k \in 1..Len(dct_image.data) |->
                LET pos == (k - 1) \div c
                IN  IF pos < Len(binary_data)
                    THEN IF binary_data[pos + 1] = 1
                         THEN dct_image.data[k] + 1
                         ELSE dct_image.data[k] - 1
                    ELSE dct_image.data[k]]
    IN  <<Returned(Idct2(FloatArray(img.shape, modified))), [self EXCEPT !.image = img]>>

\* str(bytearray): the repr text, bytes shown unescaped
BytearrayRepr(b) ==
    <<98, 121, 116, 101, 97, 114, 114, 97, 121, 40, 98, 39>> \o b \o <<39, 41>>

\* AdaptiveLSB.extract: bit 1 where the coefficient, taken modulo 2, equals 1.
\* `if dct_image[i][j] % 2 == 1` on a vector of more than one channel is a
\* ValueError (ambiguous truth value).
AdaptiveExtract(self, img, expected_length) ==
    LET self1 == [self EXCEPT !.image = img]
        length == expected_length * 8
        c == Channels(img.shape)
        dct_image == Dct2(img)
        positions == img.shape[1] * img.shape[2]
        nbits == Min(length, positions)
        binary_data == Tuple([p \in 1..nbits |->
                          IF dct_image.data[(p - 1) * c + 1] % 2 = 1 THEN 1 ELSE 0])
        data == BitsToValues(binary_data)
        decoded == Utf8DecodeStrict(data)
    IN  IF nbits > 0 /\ c > 1 THEN <<Raise("ValueError"), self1>>
        ELSE IF IsRaise(decoded) THEN <<Str(BytearrayRepr(data)), self1>>
        ELSE <<Str(RStripNul(decoded.v)), self1>>

\* the largest power of two that is <= n (n >= 1)
RECURSIVE Pow2Below(_)
Pow2Below(n) == IF n < 2 THEN 1 ELSE 2 * Pow2Below(n \div 2)

\* int(total_bits * 0.7) in IEEE double arithmetic: the double nearest to 0.7
\* is 0.7 - 0.4 * 2^-53, so the product of a multiple of ten, 10k, lies
\* k * 2^-51 below 7k and rounds up to 7k only when that is at most half an
\* ulp of 7k; every other product truncates to floor(7n/10)
IntTimes07(n) ==
    IF n % 10 = 0 /\ n > 0
    THEN LET k == n \div 10
         IN  IF 4 * k <= Pow2Below(7 * k) THEN 7 * k ELSE 7 * k - 1
    ELSE (7 * n) \div 10

\* AdaptiveLSB.get_capacity (image is never None in a call from the engine)
AdaptiveGetCapacity(img) ==
    LET total_bits == NumSamples(img.shape)
        usable_bits == IntTimes07(total_bits) - 32
    IN  Max(0, usable_bits \div 8)

----------------------------------------------------------------------------
(* zlib.compress / zlib.decompress.  The zlib container is modelled byte for *)
(* byte (CMF, FLG, Adler-32 trailer); the deflate body is modelled as one    *)
(* final stored block, the form every stream of this model has.  A body of   *)
(* any other form makes decompress raise zlib.error.                         *)

\* FLG byte zlib writes for a compression level (CMF is 0x78)
ZlibFlg(level) ==
    IF level <= 1 THEN 1 ELSE IF level <= 5 THEN 94 ELSE IF level = 6 THEN 156 ELSE 218

\* sum of weight(i) * data[i] for i in lo..hi, weight(i) = 1 or n - i + 1
RECURSIVE AdlerSum(_, _, _, _)
AdlerSum(data, lo, hi, weighted) ==
    IF lo > hi THEN 0
    ELSE IF lo = hi THEN (IF weighted THEN Len(data) - lo + 1 ELSE 1) * data[lo]
    ELSE LET mid == (lo + hi) \div 2
         IN  AdlerSum(data, lo, mid, weighted) + AdlerSum(data, mid + 1, hi, weighted)

\* a: 1 plus the sum of the bytes; b: the sum of the values a takes after
\* each byte; both modulo 65521
AdlerA(data, n) == (1 + AdlerSum(data, 1, n, FALSE)) % 65521

AdlerB(data, n) == (n + AdlerSum(data, 1, n, TRUE)) % 65521

Adler32(data) ==
    LET a == AdlerA(data, Len(data))
        b == AdlerB(data, Len(data))
    IN  <<b \div 256, b % 256, a \div 256, a % 256>>

ZlibCompress(data, level) ==
    LET n == Len(data)
    IN  <<120, ZlibFlg(level)>>
        \o <<1, n % 256, n \div 256, 255 - (n % 256), 255 - (n \div 256)>>
        \o data \o Adler32(data)

\* zlib.error is not a ValueError
ZlibDecompress(s) ==
    LET headerOk == /\ Len(s) >= 2
                    /\ s[1] % 16 = 8 /\ s[1] \div 16 <= 7
                    /\ (s[1] * 256 + s[2]) % 31 = 0
                    /\ (s[2] \div 32) % 2 = 0
        storedOk == /\ Len(s) >= 7
                    /\ s[3] % 8 = 1
                    /\ s[4] + s[6] = 255 /\ s[5] + s[7] = 255
        n == s[4] + 256 * s[5]
        data == SubSeq(s, 8, 7 + n)
    IN  IF headerOk /\ storedOk /\ Len(s) >= 7 + n + 4
           /\ SubSeq(s, 8 + n, 11 + n) = Adler32(data)
        THEN Bytes(data)
        ELSE Raise("zlib.error")

----------------------------------------------------------------------------
(* core/encryption.py.  The ciphers are ideal: a key is the pair of password *)
(* and salt it was derived from (PBKDF2 without collisions); the ciphertext  *)
(* of an encryption is drawn from a sample of byte strings of the right      *)
(* length and recorded in cipher_log; decryption under the key, IV and       *)
(* ciphertext of a recorded encryption returns its plaintext, and under any  *)
(* other key an arbitrary byte string of the ciphertext's length.            *)

\* os.urandom(16), os.urandom(12): 'A' * n is text, 0xC8 * n is not UTF-8
Salts == {Rep(65, 16), Rep(200, 16)}
IVs == {Rep(66, 16)}
Nonces == {Rep(67, 12)}

CipherByteValues == {68, 201}

CipherTexts(n) == {Rep(b, n) : b \in CipherByteValues}

\* what a block cipher returns for a ciphertext under a key it was not
\* encrypted with: n bytes, the last one independent of the others
GarbageValues == {65, 200}
GarbageLast == {0, 3, 16, 200}

Garbage(n) ==
    IF n = 0 THEN {<<>>}
    ELSE {Rep(x, n - 1) \o <<y>> : x \in GarbageValues, y \in GarbageLast}

\* EncryptionManager._derive_key
DeriveKey(password, salt) == [password |-> password, salt |-> salt]

\* python slices data[a:b] with 0 <= a, b (0-based, end exclusive)
Slice(data, a, b) == SubSeq(data, a + 1, Min(b, Len(data)))

SliceFrom(data, a) == SubSeq(data, a + 1, Len(data))

\* EncryptionManager._pad_data
PadData(data) ==
    LET padding_length == 16 - (Len(data) % 16)
    IN  data \o Rep(padding_length, padding_length)

\* EncryptionManager._unpad_data: padded_data[:-padding_length]; [:-0] is empty
UnpadData(padded_data) ==
    IF Len(padded_data) = 0 THEN Raise("IndexError")
    ELSE LET padding_length == padded_data[Len(padded_data)]
         IN  IF padding_length = 0 \/ padding_length >= Len(padded_data)
             THEN Bytes(<<>>)
             ELSE Bytes(SubSeq(padded_data, 1, Len(padded_data) - padding_length))

LogEntry(suite, key, iv, pt, ct) ==
    [suite |-> suite, key |-> key, iv |-> iv, pt |-> pt, ct |-> ct]

\* ciphertexts a cipher may return for (key, iv, pt): the recorded one if this
\* encryption was done before, else one no other plaintext maps to
FreshCipherTexts(log, suite, key, iv, pt, n) ==
    LET same == {e \in log : e.suite = suite /\ e.key = key /\ e.iv = iv /\ e.pt = pt}
        taken == {e.ct : e \in {e \in log : e.suite = suite /\ e.key = key /\ e.iv = iv}}
    IN  IF same # {} THEN {e.ct : e \in same} ELSE CipherTexts(n) \ taken

\* plaintexts a cipher may return for (key, iv, ct)
Plaintexts(log, suite, key, iv, ct) ==
    LET same == {e \in log : e.suite = suite /\ e.key = key /\ e.iv = iv /\ e.ct = ct}
    IN  IF same # {} THEN {e.pt : e \in same} ELSE Garbage(Len(ct))

Outcome(value, log) == [out |-> value, log |-> log]

\* EncryptionManager._encrypt_aes
EncryptAES(data, password, log) ==
    {LET key == DeriveKey(password, salt)
         padded_data == PadData(data)
     IN  Outcome(Bytes(salt \o iv \o ct),
                 log \cup {LogEntry("AES", key, iv, padded_data, ct)}) :
        <<salt, iv, ct>> \in
            {x \in Salts \X IVs \X CipherTexts(Len(PadData(data))) :
                x[3] \in FreshCipherTexts(log, "AES", DeriveKey(password, x[1]), x[2],
                                          PadData(data), Len(PadData(data)))}}

\* EncryptionManager._decrypt_aes: modes.CBC needs a 16-byte IV and the
\* ciphertext a whole number of blocks, else ValueError
DecryptAES(encrypted_data, password, log) ==
    LET salt == Slice(encrypted_data, 0, 16)
        iv == Slice(encrypted_data, 16, 32)
        ciphertext == SliceFrom(encrypted_data, 32)
        key == DeriveKey(password, salt)
    IN  IF Len(iv) # 16 \/ Len(ciphertext) % 16 # 0
        THEN {Raise("ValueError")}
        ELSE {UnpadData(padded_data) : padded_data \in Plaintexts(log, "AES", key, iv, ciphertext)}

\* algorithms.ChaCha20(key, nonce) of the cryptography package accepts only a
\* 16-byte nonce (4-byte counter and 12-byte nonce) and raises ValueError
\* for any other length
ChaCha20NonceOk(nonce) == Len(nonce) = 16

\* EncryptionManager._encrypt_chacha20: the nonce is os.urandom(12)
EncryptChaCha20(data, password, log) ==
    {LET key == DeriveKey(password, salt)
     IN  IF ~ChaCha20NonceOk(nonce)
         THEN Outcome(Raise("ValueError"), log)
         ELSE Outcome(Bytes(salt \o nonce \o ct),
                      log \cup {LogEntry("ChaCha20", key, nonce, data, ct)}) :
        <<salt, nonce, ct>> \in Salts \X Nonces \X CipherTexts(Len(data))}

\* EncryptionManager._decrypt_chacha20: the nonce is encrypted_data[16:28]
DecryptChaCha20(encrypted_data, password, log) ==
    LET salt == Slice(encrypted_data, 0, 16)
        nonce == Slice(encrypted_data, 16, 28)
        ciphertext == SliceFrom(encrypted_data, 28)
        key == DeriveKey(password, salt)
    IN  IF ~ChaCha20NonceOk(nonce)
        THEN {Raise("ValueError")}
        ELSE {Bytes(pt) : pt \in Plaintexts(log, "ChaCha20", key, nonce, ciphertext)}

\* length of a Fernet token: urlsafe base64 of version (1), timestamp (8),
\* IV (16), AES-CBC ciphertext of the PKCS7-padded data and HMAC (32)
FernetTokenLen(n) == 4 * ((57 + 16 * ((n \div 16) + 1) + 2) \div 3)

\* base64 text: a token starts "gAAAAA" (version 0x80, high timestamp bytes 0)
FernetTokens(n) ==
    {<<103, 65, 65, 65, 65, 65>> \o Rep(b, FernetTokenLen(n) - 6) : b \in {81, 82}}

\* EncryptionManager._encrypt_fernet
EncryptFernet(data, password, log) ==
    {LET key == DeriveKey(password, salt)
     IN  Outcome(Bytes(salt \o token),
                 log \cup {LogEntry("Fernet", key, <<>>, data, token)}) :
        <<salt, token>> \in
            {x \in Salts \X FernetTokens(Len(data)) :
                \A e \in log : (e.suite = "Fernet" /\ e.ct = x[2])
                                    => (e.key = DeriveKey(password, x[1]) /\ e.pt = data)}}

\* EncryptionManager._decrypt_fernet: Fernet.decrypt verifies the HMAC of the
\* token and raises InvalidToken, which is not a ValueError, when it fails
DecryptFernet(encrypted_data, password, log) ==
    LET salt == Slice(encrypted_data, 0, 16)
        ciphertext == SliceFrom(encrypted_data, 16)
        key == DeriveKey(password, salt)
        same == {e \in log : e.suite = "Fernet" /\ e.key = key /\ e.ct = ciphertext}
    IN  IF same = {} THEN {Raise("InvalidToken")} ELSE {Bytes(e.pt) : e \in same}

\* EncryptionManager.encrypt: the set of possible outcomes [out, log]
Encrypt(data, password, method, log) ==
    CASE method = "AES-256" -> EncryptAES(data, password, log)
      [] method = "ChaCha20" -> EncryptChaCha20(data, password, log)
      [] method = "Fernet" -> EncryptFernet(data, password, log)
      [] OTHER -> {Outcome(Raise("ValueError"), log)}

\* EncryptionManager.decrypt: the set of possible returned values
Decrypt(encrypted_data, password, method, log) ==
    CASE method = "AES-256" -> DecryptAES(encrypted_data, password, log)
      [] method = "ChaCha20" -> DecryptChaCha20(encrypted_data, password, log)
      [] method = "Fernet" -> DecryptFernet(encrypted_data, password, log)
      [] OTHER -> {Raise("ValueError")}

----------------------------------------------------------------------------
(* core/steganography.py: the frame header and the payload pipeline *)

\* SteganographyEngine._create_header
CreateHeader(encrypted, compressed, encryption_method) ==
    LET flags == (IF encrypted THEN 1 ELSE 0) + (IF compressed THEN 2 ELSE 0)
        method_id == CASE encryption_method = "AES-256" -> 0
                       [] encryption_method = "ChaCha20" -> 1
                       [] encryption_method = "Fernet" -> 2
                       [] OTHER -> 0
    IN  <<flags, method_id>>

\* _parse_header with the two flag bits read from each other's position
ParseHeaderSwapped(data) ==
    IF Len(data.v) < 2 THEN [t |-> "raise", exc |-> "ValueError"]
    ELSE IF data.t = "str" THEN [t |-> "raise", exc |-> "TypeError"]
    ELSE LET flags == data.v[1]
             method_id == data.v[2]
         IN  [t |-> "dict", exc |-> "none",
              encrypted |-> (flags \div 2) % 2 = 1,
              compressed |-> flags % 2 = 1,
              encryption_method |-> CASE method_id = 0 -> "AES-256"
                                      [] method_id = 1 -> "ChaCha20"
                                      [] method_id = 2 -> "Fernet"
                                      [] OTHER -> "AES-256",
              header_size |-> 2]

\* SteganographyEngine._parse_header: data is whatever extract returned; the
\* elements of a str are str, and `flags & 1` on a str is a TypeError
ParseHeader(data) ==
    IF Len(data.v) < 2 THEN [t |-> "raise", exc |-> "ValueError"]
    ELSE IF data.t = "str" THEN [t |-> "raise", exc |-> "TypeError"]
    ELSE LET flags == data.v[1]
             method_id == data.v[2]
         IN  [t |-> "dict", exc |-> "none",
              encrypted |-> flags % 2 = 1,
              compressed |-> (flags \div 2) % 2 = 1,
              encryption_method |-> CASE method_id = 0 -> "AES-256"
                                      [] method_id = 1 -> "ChaCha20"
                                      [] method_id = 2 -> "Fernet"
                                      [] OTHER -> "AES-256",
              header_size |-> 2]

\* SteganographyEngine._prepare_message: the set of possible outcomes
PrepareMessage(msg, password, encryption_method, compression_level, log) ==
    LET encoded == Utf8Encode(msg.v)
        message_bytes == IF compression_level > 0
                         THEN ZlibCompress(encoded, compression_level)
                         ELSE encoded
        header == CreateHeader(password # "", compression_level > 0, encryption_method)
    IN  IF password # ""
        THEN {IF IsRaise(o.out) THEN o ELSE Outcome(Bytes(header \o o.out.v), o.log) :
                o \in Encrypt(message_bytes, password, encryption_method, log)}
        ELSE {Outcome(Bytes(header \o message_bytes), log)}

\* the rest of _process_extracted_data once message_data is decrypted
Decode(message_data, compressed) ==
    IF IsRaise(message_data) THEN message_data
    ELSE LET inflated == IF compressed THEN ZlibDecompress(message_data.v) ELSE message_data
         IN  IF IsRaise(inflated) THEN inflated ELSE Utf8DecodeStrict(inflated.v)

\* SteganographyEngine._process_extracted_data: the set of possible results
ProcessExtractedData(data, password, log) ==
    LET header_info == ParseHeader(data)
        message_data == SliceFrom(data.v, 2)
    IN  IF header_info.t = "raise" THEN {Raise(header_info.exc)}
        ELSE IF header_info.encrypted /\ password # ""
        THEN {Decode(d, header_info.compressed) :
                d \in Decrypt(message_data, password, header_info.encryption_method, log)}
        ELSE {Decode(Bytes(message_data), header_info.compressed)}

\* what a task returns, and what its future holds when the task raised
Success == [state |-> "done", success |-> TRUE, exc |-> "none", error |-> "none"]

Failure(error) == [state |-> "done", success |-> FALSE, exc |-> "none", error |-> error]

Escaped(exc) == [state |-> "raised", success |-> FALSE, exc |-> exc, error |-> "none"]

\* the classes `except ValueError` catches (UnicodeDecodeError derives from
\* ValueError; zlib.error, InvalidToken, TypeError, IndexError and
\* AttributeError do not)
ValueErrors == {"ValueError", "UnicodeDecodeError"}

\* `except ValueError as e: return {'success': False, 'error': str(e)}` of
\* encode_task and decode_task
ExceptValueError(exc) == IF exc \in ValueErrors THEN Failure(exc) ELSE Escaped(exc)

\* the end of decode_task: the result for a value of _process_extracted_data
DecodeCompleted(value) == IF IsRaise(value) THEN ExceptValueError(value.exc) ELSE Success

----------------------------------------------------------------------------
(* Inputs of the model *)

\* sample values of a carrier: dark, bright, and a ramp over the 8-bit range
Fills == {"zeros", "bright", "ramp"}

Fill(kind, i) ==
    IF kind = "zeros" THEN 0
    ELSE IF kind = "bright" THEN 255
    ELSE (37 * i) % 256

Carrier(shape, kind) == Array(shape, [i \in 1..NumSamples(shape) |-> Fill(kind, i)])

\* H x W x C colour arrays and H x W grayscale arrays
LSBShapes ==
    {<<h, w, c>> : h \in 1..MaxH, w \in 1..MaxW, c \in {1, 3, 4}}
    \cup {<<h, w>> : h \in 1..MaxH, w \in 1..MaxW}

LSBCarriers == {Carrier(sh, k) : sh \in LSBShapes, k \in Fills}

\* byte values of the payloads: NUL, ASCII 'A', and bytes of the two-byte
\* UTF-8 sequence of U+00E9 (0xC3 0xA9), which are ill-formed on their own
PayloadByteValues == {0, 65, 195, 169}

SeqsUpTo(S, n) == UNION {[1..k -> S] : k \in 0..n}

BytePayloads == {Bytes(s) : s \in SeqsUpTo(PayloadByteValues, MaxPayloadLen)}

\* text payloads, as test_app.py passes them
StrPayloads == {Str(s) : s \in SeqsUpTo({0, 65, 233}, MaxPayloadLen)}

PayloadBytes(secret) == IF secret.t = "str" THEN Utf8Encode(secret.v) ELSE secret.v

NoResult == [t |-> "none", exc |-> "none", v |-> NoArray]

\* analyze_quality not called
NoReport ==
    [t |-> "none", exc |-> "none", psnr |-> [inf |-> FALSE, of |-> <<0, 1>>],
     mse |-> <<0, 1>>, mae |-> <<0, 1>>]

\* the result of a future that is not done
Pending == [state |-> "pending", success |-> FALSE, exc |-> "none", error |-> "none"]

\* the decode tab before any decode request: __init__ sets the timer, the
\* future and the callback to None
NoWindow ==
    [decode_btn |-> TRUE, decode_timer |-> "none", decode_future |-> 0,
     decode_callback |-> FALSE, futures |-> 0, algorithms_to_try |-> <<>>,
     current_algorithm_index |-> 0, message_box |-> "none"]

\* no file, no task submitted
NoTasks ==
    /\ image_file = NoArray /\ embed_calls = 0
    /\ encode_result = Pending /\ decode_result = Pending
    /\ decode_algorithm = "LSB"
    /\ quality = NoReport
    /\ parsed_header = None
    /\ pool = <<>>
    /\ window = NoWindow

\* nothing framed, nothing encrypted so far
NoCrypto ==
    /\ processed_message = None /\ decode_password = "" /\ recovered = None
    /\ cipher_log = {}

\* no request, no file, no encryption so far
NoEngine ==
    /\ message = None /\ enc_password = "" /\ enc_method = "AES-256"
    /\ enc_level = 0
    /\ NoCrypto
    /\ NoTasks

\* no array handed to an algorithm
NoArrays ==
    /\ image = NoArray /\ secret_data = None /\ stego = NoResult
    /\ extracted = None /\ capacity = -1

----------------------------------------------------------------------------
(* Direct calls of the LSB algorithm (test_app.py, test_basic_functionality) *)

InitLSB ==
    /\ pc = "start"
    /\ image \in LSBCarriers
    /\ secret_data \in BytePayloads \cup StrPayloads
    /\ stego = NoResult
    /\ extracted = None
    /\ capacity = -1
    /\ algorithm = "LSB"
    /\ dct_self = FreshDCT
    /\ adaptive_self = FreshAdaptive
    /\ NoEngine

LSBCapacityCall ==
    /\ pc = "start"
    /\ capacity' = LSBGetCapacity(image)
    /\ pc' = "sized"
    /\ UNCHANGED <<image, secret_data, stego, extracted, algoVars, requestVars, cryptoVars, engineVars>>

LSBEmbedCall ==
    /\ pc = "sized"
    /\ stego' = LSBEmbed(image, secret_data)
    /\ pc' = IF IsRaise(stego') THEN "embed_raised" ELSE "embedded"
    /\ UNCHANGED <<image, secret_data, extracted, capacity, algoVars, requestVars, cryptoVars, engineVars>>

LSBExtractCall ==
    /\ pc = "embedded"
    /\ extracted' = LSBExtract(stego.v, DefaultMaxLength)
    /\ pc' = "extracted"
    /\ UNCHANGED <<image, secret_data, stego, capacity, algoVars, requestVars, cryptoVars, engineVars>>

\* extract called on the carrier itself, into which nothing was embedded
LSBExtractCleanCall ==
    /\ pc = "sized"
    /\ extracted' = LSBExtract(image, DefaultMaxLength)
    /\ pc' = "extracted_clean"
    /\ UNCHANGED <<image, secret_data, stego, capacity, algoVars, requestVars, cryptoVars, engineVars>>

NextLSB == LSBCapacityCall \/ LSBEmbedCall \/ LSBExtractCall \/ LSBExtractCleanCall

SpecLSB == InitLSB /\ [][NextLSB]_vars

----------------------------------------------------------------------------
(* Direct calls of the transform-domain algorithms on one instance each *)

\* grayscale (2-D) and colour (3-D) shapes; 16 x 32 is the smallest grayscale
\* shape with a DCT capacity of one byte
TransformShapes == {<<2, 2>>, <<4, 8>>, <<5, 7>>, <<8, 8>>, <<16, 32>>, <<7, 7, 3>>, <<8, 8, 3>>}

FlatValues == {0, 128, 255}

FlatCarrier(shape, x) == Array(shape, [i \in 1..NumSamples(shape) |-> x])

TransformCarriers == {FlatCarrier(sh, x) : sh \in TransformShapes, x \in FlatValues}

GetCapacity(alg, img) ==
    CASE alg = "LSB" -> LSBGetCapacity(img)
      [] alg = "DCT" -> DCTGetCapacity(img)
      [] alg = "DWT" -> DWTGetCapacity(img)
      [] alg = "Adaptive LSB" -> AdaptiveGetCapacity(img)

InitTransform ==
    /\ pc = "start"
    /\ image \in TransformCarriers
    /\ secret_data \in BytePayloads \cup StrPayloads
    /\ stego = NoResult
    /\ extracted = None
    /\ capacity = -1
    /\ algorithm \in {"DCT", "DWT", "Adaptive LSB"}
    /\ dct_self = FreshDCT
    /\ adaptive_self = FreshAdaptive
    /\ NoEngine

TransformCapacityCall ==
    /\ pc = "start"
    /\ capacity' = GetCapacity(algorithm, image)
    /\ pc' = "sized"
    /\ UNCHANGED <<image, secret_data, stego, extracted, algoVars, requestVars, cryptoVars, engineVars>>

AfterEmbed(r) == IF IsRaise(r) THEN "embed_raised" ELSE "embedded"

DCTEmbedCall ==
    /\ pc = "sized" /\ algorithm = "DCT"
    /\ LET r == DCTEmbed(dct_self, image, secret_data)
       IN  stego' = r[1] /\ dct_self' = r[2] /\ pc' = AfterEmbed(r[1])
    /\ UNCHANGED <<image, secret_data, extracted, capacity, algorithm, adaptive_self, requestVars, cryptoVars, engineVars>>

\* extract(stego, len(p)), or extract(stego) with the default length
DCTExtractCall ==
    /\ pc = "embedded" /\ algorithm = "DCT"
    /\ \E hinted \in BOOLEAN :
          LET len == IF hinted THEN Len(PayloadBytes(secret_data)) ELSE DefaultExpectedLength
              r == DCTExtract(dct_self, stego.v, len)
          IN  /\ extracted' = r[1] /\ dct_self' = r[2]
              /\ pc' = IF hinted THEN "extracted" ELSE "extracted_default"
    /\ UNCHANGED <<image, secret_data, stego, capacity, algorithm, adaptive_self, requestVars, cryptoVars, engineVars>>

DWTEmbedCall ==
    /\ pc = "sized" /\ algorithm = "DWT"
    /\ stego' = DWTEmbed(image, secret_data)
    /\ pc' = AfterEmbed(stego')
    /\ UNCHANGED <<image, secret_data, extracted, capacity, algoVars, requestVars, cryptoVars, engineVars>>

\* DWTSteganography.extract takes the image only
DWTExtractCall ==
    /\ pc = "embedded" /\ algorithm = "DWT"
    /\ extracted' = DWTExtract(stego.v)
    /\ pc' = "extracted"
    /\ UNCHANGED <<image, secret_data, stego, capacity, algoVars, requestVars, cryptoVars, engineVars>>

AdaptiveEmbedCall ==
    /\ pc = "sized" /\ algorithm = "Adaptive LSB"
    /\ LET r == AdaptiveEmbed(adaptive_self, image, secret_data)
       IN  stego' = r[1] /\ adaptive_self' = r[2] /\ pc' = AfterEmbed(r[1])
    /\ UNCHANGED <<image, secret_data, extracted, capacity, algorithm, dct_self, requestVars, cryptoVars, engineVars>>

AdaptiveExtractCall ==
    /\ pc = "embedded" /\ algorithm = "Adaptive LSB"
    /\ \E hinted \in BOOLEAN :
          LET len == IF hinted THEN Len(PayloadBytes(secret_data)) ELSE DefaultExpectedLength
              r == AdaptiveExtract(adaptive_self, stego.v, len)
          IN  /\ extracted' = r[1] /\ adaptive_self' = r[2]
              /\ pc' = IF hinted THEN "extracted" ELSE "extracted_default"
    /\ UNCHANGED <<image, secret_data, stego, capacity, algorithm, dct_self, requestVars, cryptoVars, engineVars>>

NextTransform ==
    \/ TransformCapacityCall
    \/ DCTEmbedCall \/ DCTExtractCall
    \/ DWTEmbedCall \/ DWTExtractCall
    \/ AdaptiveEmbedCall \/ AdaptiveExtractCall

SpecTransform == InitTransform /\ [][NextTransform]_vars

----------------------------------------------------------------------------
(* Direct calls of EncryptionManager.encrypt and decrypt (test_app.py,      *)
(* test_encryption)                                                         *)

Methods == {"AES-256", "ChaCha20", "Fernet"}

\* lengths of the data: empty, short, around one block, two blocks
CipherDataLens == {0, 1, 15, 16, 17, 32}

CipherData == {Bytes(Rep(b, n)) : b \in {1, 65}, n \in CipherDataLens}

Passwords == {"", "secret123", "wrong"}

InitCipher ==
    /\ pc = "start"
    /\ message \in CipherData
    /\ enc_password \in Passwords
    /\ enc_method \in Methods \cup {"Blowfish"}
    /\ enc_level = 0
    /\ NoCrypto
    /\ NoTasks
    /\ NoArrays
    /\ algorithm = "LSB" /\ dct_self = FreshDCT /\ adaptive_self = FreshAdaptive

EncryptCall ==
    /\ pc = "start"
    /\ \E o \in Encrypt(message.v, enc_password, enc_method, cipher_log) :
          /\ processed_message' = o.out
          /\ cipher_log' = o.log
          /\ pc' = IF IsRaise(o.out) THEN "encrypt_raised" ELSE "encrypted"
    /\ UNCHANGED <<decode_password, recovered, arrayVars, algoVars, requestVars, engineVars>>

DecryptCall ==
    /\ pc = "encrypted"
    /\ \E pw \in Passwords :
          \E d \in Decrypt(processed_message.v, pw, enc_method, cipher_log) :
             /\ decode_password' = pw
             /\ recovered' = d
    /\ pc' = "decrypted"
    /\ UNCHANGED <<processed_message, cipher_log, arrayVars, algoVars, requestVars, engineVars>>

\* blobs shorter than salt + IV (32), salt + nonce (28) or salt (16)
ShortBlobs == {Bytes(Rep(b, n)) : b \in {1, 65}, n \in {0, 5, 15, 16, 20, 27, 28, 31}}

\* a direct call of decrypt on a blob that no encrypt returned
DecryptBlobCall ==
    /\ pc = "start"
    /\ \E blob \in ShortBlobs, pw \in Passwords :
          \E d \in Decrypt(blob.v, pw, enc_method, cipher_log) :
             /\ processed_message' = blob
             /\ decode_password' = pw
             /\ recovered' = d
    /\ pc' = "blob_decrypted"
    /\ UNCHANGED <<cipher_log, arrayVars, algoVars, requestVars, engineVars>>

NextCipher == EncryptCall \/ DecryptCall \/ DecryptBlobCall

SpecCipher == InitCipher /\ [][NextCipher]_vars

----------------------------------------------------------------------------
(* _prepare_message, and the part of decode_task from the call of            *)
(* _process_extracted_data to its result                                    *)

\* "", "A", "HELLO", and U+00E9
Messages == {Str(<<>>), Str(<<65>>), Str(<<72, 69, 76, 76, 79>>), Str(<<233>>)}

Levels == {0, 1, 6, 9}

InitFrame ==
    /\ pc = "start"
    /\ message \in Messages
    /\ enc_password \in {"", "secret123"}
    /\ enc_method \in Methods \cup {"Blowfish"}
    /\ enc_level \in Levels
    /\ NoCrypto
    /\ NoTasks
    /\ NoArrays
    /\ algorithm = "LSB" /\ dct_self = FreshDCT /\ adaptive_self = FreshAdaptive

PrepareCall ==
    /\ pc = "start"
    /\ \E o \in PrepareMessage(message, enc_password, enc_method,
                                enc_level, cipher_log) :
          /\ processed_message' = o.out
          /\ cipher_log' = o.log
          /\ pc' = IF IsRaise(o.out) THEN "prepare_raised" ELSE "prepared"
    /\ UNCHANGED <<decode_password, recovered, arrayVars, algoVars, requestVars, engineVars>>

ProcessCall ==
    /\ pc = "prepared"
    /\ \E pw \in Passwords :
          \E d \in ProcessExtractedData(processed_message, pw, cipher_log) :
             /\ decode_password' = pw
             /\ recovered' = d
             /\ decode_result' = DecodeCompleted(d)
    /\ pc' = "processed"
    /\ UNCHANGED <<processed_message, cipher_log, arrayVars, algoVars, requestVars>>
    /\ UNCHANGED <<image_file, embed_calls, encode_result, decode_algorithm, quality, parsed_header, pool, window>>

\* a direct call of _create_header with the arguments _prepare_message
\* gives it; the body that follows the header is the encoded message
CreateHeaderCall ==
    /\ pc = "start"
    /\ processed_message' = Bytes(CreateHeader(enc_password # "", enc_level > 0, enc_method)
                                      \o Utf8Encode(message.v))
    /\ pc' = "framed"
    /\ UNCHANGED <<decode_password, recovered, cipher_log>>
    /\ UNCHANGED <<arrayVars, algoVars, requestVars, engineVars>>

\* _parse_header of that header and body
ParseHeaderCall ==
    /\ pc = "framed"
    /\ parsed_header' = ParseHeader(processed_message)
    /\ pc' = "parsed"
    /\ UNCHANGED <<arrayVars, algoVars, requestVars, cryptoVars>>
    /\ UNCHANGED <<image_file, embed_calls, encode_result, decode_algorithm, decode_result, quality, pool, window>>

RawByteValues == {0, 1, 2, 3, 7, 255}

\* the byte strings an extract can hand to _parse_header
RawFrames == {Bytes(f) : f \in UNION {[1..n -> RawByteValues] : n \in 0..3}}

\* _parse_header of arbitrary extracted bytes
ParseRawCall ==
    /\ pc = "start"
    /\ \E raw \in RawFrames :
          /\ extracted' = raw
          /\ parsed_header' = ParseHeader(raw)
    /\ pc' = "parsed_raw"
    /\ UNCHANGED <<image, secret_data, stego, capacity, algoVars, requestVars, cryptoVars>>
    /\ UNCHANGED <<image_file, embed_calls, encode_result, decode_algorithm, decode_result, quality, pool, window>>

NextFrame ==
    PrepareCall \/ ProcessCall \/ CreateHeaderCall \/ ParseHeaderCall \/ ParseRawCall

SpecFrame == InitFrame /\ [][NextFrame]_vars

----------------------------------------------------------------------------
(* core/steganography.py: SteganographyEngine.  One engine; a request is    *)
(* submitted with encode_async, its task runs, the caller saves the stego   *)
(* image of a successful result, submits a decode of the saved file with    *)
(* decode_async, and that task runs.                                        *)

AlgorithmNames == {"LSB", "DCT", "DWT", "Adaptive LSB"}

\* ImageProcessor.load_image: None for a file that cannot be opened, else
\* the picture converted to RGB
LoadImage(file) ==
    IF file.dtype = "none" THEN NoArray
    ELSE LET h == file.shape[1]
             w == file.shape[2]
             c == Channels(file.shape)
         IN  IF c = 3 THEN file
             ELSE Array(<<h, w, 3>>,
                        [k \in 1..(h * w * 3) |->
                            file.data[((k - 1) \div 3) * c + (IF c = 1 THEN 1 ELSE ((k - 1) % 3) + 1)]])

\* sum of |data[k]| over the positions k in lo..hi that belong to channel ch
\* of c, the first position of the channel left out
RECURSIVE SumAbs(_, _, _, _, _)
SumAbs(data, lo, hi, c, ch) ==
    IF lo > hi THEN 0
    ELSE IF lo = hi
    THEN (IF lo > c /\ (lo - 1) % c = ch - 1
          THEN (IF data[lo] < 0 THEN -data[lo] ELSE data[lo])
          ELSE 0)
    ELSE LET mid == (lo + hi) \div 2
         IN  SumAbs(data, lo, mid, c, ch) + SumAbs(data, mid + 1, hi, c, ch)

\* the bound on |sample - coefficient[0, 0]| of an inverse transform: each
\* other coefficient of the channel contributes at most 4 times its magnitude
Idct2Spread(coef, ch) == 4 * SumAbs(coef.data, 1, Len(coef.data), Channels(coef.shape), ch)

\* np.clip(image_array, 0, 255).astype(np.uint8), written to a lossless file
\* (ImageProcessor.save_image, and the save of the main window).  A sample of
\* an inverse transform is known where the bound puts it outside 0..255.
SaveImage(arr) ==
    LET c == Channels(arr.shape)
        Clip(x) == Max(0, Min(255, x))
        spread == Tuple([ch \in 1..c |-> IF arr.form = "idct2" THEN Idct2Spread(arr, ch) ELSE 0])
        Sample(k) ==
            IF arr.form = "values" THEN Clip(arr.data[k])
            ELSE LET ch == ((k - 1) % c) + 1
                     dc == arr.data[ch]
                 IN  CASE dc - spread[ch] >= 255 -> 255
                       [] dc + spread[ch] <= 0 -> 0
    IN  Array(arr.shape, [k \in 1..Len(arr.data) |-> Sample(k)])

\* self.algorithms[algorithm].embed(image, processed_message)
Embed(alg, dself, aself, img, secret) ==
    CASE alg = "LSB" ->
            [r |-> LSBEmbed(img, secret), dct_self |-> dself, adaptive_self |-> aself]
      [] alg = "DCT" ->
            LET e == DCTEmbed(dself, img, secret)
            IN  [r |-> e[1], dct_self |-> e[2], adaptive_self |-> aself]
      [] alg = "DWT" ->
            [r |-> DWTEmbed(img, secret), dct_self |-> dself, adaptive_self |-> aself]
      [] alg = "Adaptive LSB" ->
            LET e == AdaptiveEmbed(aself, img, secret)
            IN  [r |-> e[1], dct_self |-> dself, adaptive_self |-> e[2]]

\* self.algorithms[algorithm].extract(image): every length takes its default
Extract(alg, dself, aself, img) ==
    CASE alg = "LSB" ->
            [r |-> LSBExtract(img, DefaultMaxLength), dct_self |-> dself, adaptive_self |-> aself]
      [] alg = "DCT" ->
            LET e == DCTExtract(dself, img, DefaultExpectedLength)
            IN  [r |-> e[1], dct_self |-> e[2], adaptive_self |-> aself]
      [] alg = "DWT" ->
            [r |-> DWTExtract(img), dct_self |-> dself, adaptive_self |-> aself]
      [] alg = "Adaptive LSB" ->
            LET e == AdaptiveExtract(aself, img, DefaultExpectedLength)
            IN  [r |-> e[1], dct_self |-> dself, adaptive_self |-> e[2]]

\* QualityAnalyzer.analyze_quality: raises ValueError when the shapes differ
AnalyzeQuality(original_image, stego_image) ==
    IF original_image.shape # stego_image.shape THEN Raise("ValueError") ELSE None

\* the capacity check comparing the byte length with the capacity in bits
TooLargeInBits(framed, cap) == Len(framed.v) > 8 * cap

\* the capacity check with >= in place of >
TooLargeOffByOne(framed, cap) == Len(framed.v) >= cap

\* `if len(processed_message) > capacity: raise ValueError("Message too large ...")`
TooLarge(framed, cap) == Len(framed.v) > cap

\* encode_task from the capacity check on: what the task leaves behind
EncodeFrom(alg, dself, aself, img, framed, calls) ==
    LET cap == GetCapacity(alg, img)
        e == Embed(alg, dself, aself, img, framed)
        idle == [capacity |-> cap, stego |-> NoResult, dct_self |-> dself,
                 adaptive_self |-> aself, embed_calls |-> calls, result |-> Pending]
        embedded == [idle EXCEPT !.stego = e.r, !.dct_self = e.dct_self,
                                 !.adaptive_self = e.adaptive_self,
                                 !.embed_calls = calls + 1]
    IN  IF TooLarge(framed, cap)
        THEN [idle EXCEPT !.result = Failure("Message too large")]
        ELSE IF IsRaise(e.r)
        THEN [embedded EXCEPT !.result = ExceptValueError(e.r.exc)]
        ELSE IF IsRaise(AnalyzeQuality(img, e.r.v))
        THEN [embedded EXCEPT !.result = ExceptValueError(AnalyzeQuality(img, e.r.v).exc)]
        \* 'capacity_used': len(processed_message) / capacity * 100
        ELSE IF cap = 0
        THEN [embedded EXCEPT !.result = Escaped("ZeroDivisionError")]
        ELSE [embedded EXCEPT !.result = Success]

EngineShapes == {<<7, 7, 3>>, <<7, 8, 3>>, <<8, 8, 3>>, <<7, 7>>}

\* the files a request may name: flat mid-grey pictures, and one that cannot
\* be opened
EngineFiles == {FlatCarrier(sh, 128) : sh \in EngineShapes} \cup {NoArray}

EngineMessageLens == {0, 1, 2, 6, 7, 12, 13}

\* 'A' * k, and "HELLO"
EngineMessages ==
    {Str(Rep(65, k)) : k \in EngineMessageLens} \cup {Str(<<72, 69, 76, 76, 79>>)}

EngineLevels == {0, 6}

Init ==
    /\ pc = "idle"
    /\ NoArrays
    /\ NoEngine
    /\ algorithm = "LSB" /\ dct_self = FreshDCT /\ adaptive_self = FreshAdaptive

EncodeAsync ==
    /\ pc = "idle"
    /\ image_file' \in EngineFiles
    /\ message' \in EngineMessages
    /\ enc_password' \in {"", "secret123"}
    /\ algorithm' \in AlgorithmNames \cup {"XOR"}
    /\ enc_method' \in Methods
    /\ enc_level' \in EngineLevels
    /\ encode_result' = Pending
    /\ pc' = "encode_submitted"
    /\ UNCHANGED <<arrayVars, dct_self, adaptive_self, cryptoVars>>
    /\ UNCHANGED <<embed_calls, decode_algorithm, decode_result, quality, parsed_header, pool, window>>

EncodeTask ==
    /\ pc = "encode_submitted"
    /\ pc' = "encode_done"
    /\ image' = LoadImage(image_file)
    /\ IF image' = NoArray
       THEN /\ encode_result' = Failure("Failed to load image")
            /\ UNCHANGED <<processed_message, cipher_log, capacity, stego,
                           dct_self, adaptive_self, embed_calls>>
       ELSE \E o \in PrepareMessage(message, enc_password, enc_method, enc_level, cipher_log) :
              /\ processed_message' = o.out
              /\ cipher_log' = o.log
              /\ IF IsRaise(o.out)
                 THEN /\ encode_result' = ExceptValueError(o.out.exc)
                      /\ UNCHANGED <<capacity, stego, dct_self, adaptive_self, embed_calls>>
                 ELSE IF algorithm \notin AlgorithmNames
                 THEN /\ encode_result' = Failure("Unknown algorithm")
                      /\ UNCHANGED <<capacity, stego, dct_self, adaptive_self, embed_calls>>
                 ELSE \E t \in {EncodeFrom(algorithm, dct_self, adaptive_self, image',
                                            o.out, embed_calls)} :
                          /\ capacity' = t.capacity
                          /\ stego' = t.stego
                          /\ dct_self' = t.dct_self
                          /\ adaptive_self' = t.adaptive_self
                          /\ embed_calls' = t.embed_calls
                          /\ encode_result' = t.result
    /\ UNCHANGED <<secret_data, extracted, algorithm, requestVars>>
    /\ UNCHANGED <<decode_password, recovered>>
    /\ UNCHANGED <<image_file, decode_algorithm, decode_result, quality, parsed_header, pool, window>>

\* the caller writes result['stego_image'] to a file
SaveStego ==
    /\ pc = "encode_done"
    /\ encode_result.success
    /\ image_file' = SaveImage(stego.v)
    /\ pc' = "saved"
    /\ UNCHANGED <<arrayVars, algoVars, requestVars, cryptoVars>>
    /\ UNCHANGED <<embed_calls, encode_result, decode_algorithm, decode_result, quality, parsed_header, pool, window>>

DecodeAsync ==
    /\ pc = "saved"
    /\ decode_password' \in Passwords
    /\ decode_algorithm' \in AlgorithmNames \cup {"XOR"}
    /\ decode_result' = Pending
    /\ pc' = "decode_submitted"
    /\ UNCHANGED <<arrayVars, algoVars, requestVars>>
    /\ UNCHANGED <<processed_message, recovered, cipher_log>>
    /\ UNCHANGED <<image_file, embed_calls, encode_result, quality, parsed_header, pool, window>>

DecodeTask ==
    /\ pc = "decode_submitted"
    /\ pc' = "decode_done"
    /\ image' = LoadImage(image_file)
    /\ IF image' = NoArray
       THEN /\ decode_result' = Failure("Failed to load image")
            /\ UNCHANGED <<extracted, recovered, dct_self, adaptive_self>>
       ELSE IF decode_algorithm \notin AlgorithmNames
       THEN /\ decode_result' = Failure("Unknown algorithm")
            /\ UNCHANGED <<extracted, recovered, dct_self, adaptive_self>>
       ELSE \E x \in {Extract(decode_algorithm, dct_self, adaptive_self, image')} :
                /\ extracted' = x.r
                /\ dct_self' = x.dct_self
                /\ adaptive_self' = x.adaptive_self
                /\ IF IsRaise(x.r)
                   THEN /\ decode_result' = ExceptValueError(x.r.exc)
                        /\ UNCHANGED recovered
                   ELSE \E d \in ProcessExtractedData(x.r, decode_password, cipher_log) :
                          /\ recovered' = d
                          /\ decode_result' = DecodeCompleted(d)
    /\ UNCHANGED <<secret_data, stego, capacity, algorithm, requestVars>>
    /\ UNCHANGED <<processed_message, decode_password, cipher_log>>
    /\ UNCHANGED <<image_file, embed_calls, encode_result, decode_algorithm, quality, parsed_header, pool, window>>

\* ImageProcessor.get_image_capacity: the file is loaded (and converted to
\* RGB) first; 0 for a file that does not load
GetImageCapacity(file, alg) ==
    LET img == LoadImage(file)
        height == img.shape[1]
        width == img.shape[2]
        channels == img.shape[3]
    IN  IF img = NoArray THEN 0
        ELSE CASE alg = "LSB" -> (height * width * channels) \div 8
               [] alg = "DCT" -> (height * width) \div 64
               [] alg = "DWT" -> (height * width) \div 32
               [] OTHER -> (height * width) \div 8

\* QualityAnalyzer.calculate_capacity
CalculateCapacity(image_shape, alg) ==
    LET height == image_shape[1]
        width == image_shape[2]
        channels == Channels(image_shape)
    IN  CASE alg = "LSB" -> (height * width * channels) \div 8
          [] alg = "DCT" -> (height * width) \div 64
          [] alg = "DWT" -> (height * width) \div 32
          [] OTHER -> (height * width) \div 8

\* the capacity reported for the file and algorithm of the request
\* (cli_capacity of run_app.py)
CapacityReportCall ==
    /\ pc = "encode_done"
    /\ image # NoArray
    /\ quality' = [t |-> "capacity", exc |-> "none",
                   image_capacity |-> GetImageCapacity(image_file, algorithm),
                   calculated |-> CalculateCapacity(image.shape, algorithm)]
    /\ pc' = "reported"
    /\ UNCHANGED <<arrayVars, algoVars, requestVars, cryptoVars>>
    /\ UNCHANGED <<image_file, embed_calls, encode_result, decode_algorithm, decode_result,
                   parsed_header, pool, window>>

Next ==
    EncodeAsync \/ EncodeTask \/ SaveStego \/ DecodeAsync \/ DecodeTask \/ CapacityReportCall

Spec == Init /\ [][Next]_vars

----------------------------------------------------------------------------
(* Direct calls of QualityAnalyzer.analyze_quality on two uint8 arrays.      *)
(* A mean is the pair <<sum, count>>; PSNR is +infinity or the pair m with   *)
(* the value 20 * log10(255 / sqrt(m)), which is one-to-one in m.            *)

\* sum of f[i] for i in lo..hi
RECURSIVE SumOf(_, _, _)
SumOf(f, lo, hi) ==
    IF lo > hi THEN 0
    ELSE IF lo = hi THEN f[lo]
    ELSE LET mid == (lo + hi) \div 2
         IN  SumOf(f, lo, mid) + SumOf(f, mid + 1, hi)

Abs(x) == IF x < 0 THEN -x ELSE x

\* ((original_image - stego_image) ** 2).mean() on uint8 arrays: the
\* difference and the square are uint8 and wrap modulo 256
Uint8SquaredMean(a, b) ==
    LET n == Len(a.data)
        sq == Tuple([i \in 1..n |-> ((((a.data[i] - b.data[i]) % 256)
                                        * ((a.data[i] - b.data[i]) % 256)) % 256)])
    IN  <<SumOf(sq, 1, n), n>>

\* np.mean((a.astype(float) - b.astype(float)) ** 2)
FloatSquaredMean(a, b) ==
    LET n == Len(a.data)
        sq == Tuple([i \in 1..n |-> (a.data[i] - b.data[i]) * (a.data[i] - b.data[i])])
    IN  <<SumOf(sq, 1, n), n>>

\* np.mean(np.abs(a.astype(float) - b.astype(float)))
FloatAbsMean(a, b) ==
    LET n == Len(a.data)
        ab == Tuple([i \in 1..n |-> Abs(a.data[i] - b.data[i])])
    IN  <<SumOf(ab, 1, n), n>>

\* `if mse == 0: return float('inf')`, else `20 * log10(255.0 / sqrt(mse))`
PsnrOf(mse) == [inf |-> mse[1] = 0, of |-> IF mse[1] = 0 THEN <<0, 1>> ELSE mse]

\* calculate_psnr, the fallback used when skimage cannot be imported
CalculatePsnr(original_image, stego_image) ==
    PsnrOf(Uint8SquaredMean(original_image, stego_image))

\* skimage's peak_signal_noise_ratio(..., data_range=255): the arrays are
\* converted to float first
PsnrFunc(original_image, stego_image) ==
    PsnrOf(FloatSquaredMean(original_image, stego_image))

\* skimage's structural_similarity of a 2-D H x W array uses a 7 x 7 window
\* and raises ValueError when a side is shorter than the window
SsimFuncRaises(shape) == shape[1] < 7 \/ shape[2] < 7

\* analyze_quality; skimage tells whether psnr_func and ssim_func were imported.
\* The ValueErrors of the shape test and of ssim_func are not caught by
\* `except (ImportError, RuntimeError)`.
QualityReport(original_image, stego_image, skimage) ==
    IF original_image.shape # stego_image.shape
    THEN [NoReport EXCEPT !.t = "raise", !.exc = "ValueError"]
    ELSE IF skimage /\ SsimFuncRaises(original_image.shape)
    THEN [NoReport EXCEPT !.t = "raise", !.exc = "ValueError"]
    ELSE [t |-> "dict", exc |-> "none",
          psnr |-> IF skimage THEN PsnrFunc(original_image, stego_image)
                   ELSE CalculatePsnr(original_image, stego_image),
          mse |-> FloatSquaredMean(original_image, stego_image),
          mae |-> FloatAbsMean(original_image, stego_image)]

QualityShapes == {<<4, 4>>, <<7, 7>>, <<2, 2, 3>>, <<8, 8, 3>>}

\* a second array of the same shape: the first k samples differ by d modulo 256
Perturbed(img, d, k) ==
    Array(img.shape, [i \in 1..Len(img.data) |->
                         IF i <= k THEN (img.data[i] + d) % 256 ELSE img.data[i]])

\* the pairs handed to analyze_quality: an array with itself, with a
\* perturbed copy, or with an array of another shape
QualityPairs ==
    {<<Carrier(sh, k), Carrier(sh, k)>> : sh \in QualityShapes, k \in Fills}
    \cup {<<Carrier(sh, k), Perturbed(Carrier(sh, k), d, n)>> :
             sh \in QualityShapes, k \in Fills, d \in {1, 16, 17, 255}, n \in {1, 4}}
    \cup {<<Carrier(sh, k), Carrier(<<8, 7>>, k)>> : sh \in QualityShapes, k \in Fills}

InitQuality ==
    /\ pc = "start"
    /\ \E pair \in QualityPairs :
          /\ image = pair[1]
          /\ stego = Returned(pair[2])
    /\ secret_data = None /\ extracted = None /\ capacity = -1
    /\ algorithm = "LSB" /\ dct_self = FreshDCT /\ adaptive_self = FreshAdaptive
    /\ NoEngine

AnalyzeQualityCall ==
    /\ pc = "start"
    /\ \E skimage \in BOOLEAN : quality' = QualityReport(image, stego.v, skimage)
    /\ pc' = "analyzed"
    /\ UNCHANGED <<arrayVars, algoVars, requestVars, cryptoVars>>
    /\ UNCHANGED <<image_file, embed_calls, encode_result, decode_algorithm, decode_result, parsed_header, pool, window>>

\* number of odd samples of channel ch: the sum of image[:, :, ch] & 1
LsbOnes(arr, ch) ==
    LET c == Channels(arr.shape)
        bit == Tuple([k \in 1..Len(arr.data) |->
                        IF (k - 1) % c = ch - 1 THEN arr.data[k] % 2 ELSE 0])
    IN  SumOf(bit, 1, Len(bit))

\* QualityAnalyzer.detect_steganography on a uint8 array.  lsb_analysis, the
\* mean over the channels of |mean(lsb) - 0.5|, and confidence are pairs
\* <<numerator, denominator>>.
DetectSteganography(img) ==
    LET c == Channels(img.shape)
        n == img.shape[1] * img.shape[2]
        num == SumOf(Tuple([ch \in 1..c |-> Abs(2 * LsbOnes(img, ch) - n)]), 1, c)
        den == 2 * n * c
        suspicious == 10 * num > den
    IN  [t |-> "dict", exc |-> "none",
         suspicious_patterns |-> suspicious,
         lsb_analysis |-> <<num, den>>,
         confidence |-> IF suspicious
                        THEN (IF 2 * num >= den THEN <<1, 1>> ELSE <<2 * num, den>>)
                        ELSE <<0, 1>>]

\* a direct call of detect_steganography on the second array
DetectCall ==
    /\ pc = "start"
    /\ quality' = DetectSteganography(stego.v)
    /\ pc' = "detected"
    /\ UNCHANGED <<arrayVars, algoVars, requestVars, cryptoVars>>
    /\ UNCHANGED <<image_file, embed_calls, encode_result, decode_algorithm, decode_result,
                   parsed_header, pool, window>>

\* a direct call of the module function calculate_psnr on two uint8 arrays of
\* one shape
CalculatePsnrCall ==
    /\ pc = "start"
    /\ image.shape = stego.v.shape
    /\ quality' = [NoReport EXCEPT !.t = "psnr", !.psnr = CalculatePsnr(image, stego.v)]
    /\ pc' = "psnr_done"
    /\ UNCHANGED <<arrayVars, algoVars, requestVars, cryptoVars>>
    /\ UNCHANGED <<image_file, embed_calls, encode_result, decode_algorithm, decode_result,
                   parsed_header, pool, window>>

NextQuality == AnalyzeQualityCall \/ DetectCall \/ CalculatePsnrCall

SpecQuality == InitQuality /\ [][NextQuality]_vars

----------------------------------------------------------------------------
(* Two encode tasks of one engine running on the worker threads of its       *)
(* ThreadPoolExecutor.  Both use self.algorithms[algorithm], one object per  *)
(* algorithm.  A task is everything encode_task does on its own locals,      *)
(* split where it touches the attributes of that object: embed stores its    *)
(* image argument in self.image, and embed_data later reads self.image.      *)

Tasks == {1, 2}

PoolShapes == {<<7, 7, 3>>, <<16, 32, 3>>}

PoolFiles == {FlatCarrier(sh, x) : sh \in PoolShapes, x \in {64, 128}}

\* the array embed_data works on: the attribute, where the algorithm keeps one
ImageRead(alg, dself, aself, img) ==
    CASE alg = "DCT" -> dself.image
      [] alg = "Adaptive LSB" -> aself.image
      [] OTHER -> img

\* encode_task from load_image to `self.image = image` in embed
PoolStart(t) ==
    /\ pool[t].pc = "submitted"
    /\ IF TooLarge(processed_message, GetCapacity(algorithm, pool[t].image))
       THEN /\ pool' = [pool EXCEPT ![t].pc = "done",
                                    ![t].result = Failure("Message too large")]
            /\ UNCHANGED <<dct_self, adaptive_self>>
       ELSE /\ pool' = [pool EXCEPT ![t].pc = "embedding"]
            /\ dct_self' = IF algorithm = "DCT"
                           THEN [dct_self EXCEPT !.image = pool[t].image]
                           ELSE dct_self
            /\ adaptive_self' = IF algorithm = "Adaptive LSB"
                                THEN [adaptive_self EXCEPT !.image = pool[t].image]
                                ELSE adaptive_self
    /\ UNCHANGED <<pc, algorithm, arrayVars, requestVars, cryptoVars>>
    /\ UNCHANGED <<image_file, embed_calls, encode_result, decode_algorithm, decode_result,
                   quality, parsed_header, window>>

\* encode_task from embed_data to the result of the task
PoolFinish(t) ==
    /\ pool[t].pc = "embedding"
    /\ \E e \in {Embed(algorithm, dct_self, adaptive_self,
                       ImageRead(algorithm, dct_self, adaptive_self, pool[t].image),
                       processed_message)} :
          /\ dct_self' = e.dct_self
          /\ adaptive_self' = e.adaptive_self
          /\ pool' = [pool EXCEPT
                        ![t].pc = "done",
                        ![t].stego = e.r,
                        ![t].result =
                            IF IsRaise(e.r) THEN ExceptValueError(e.r.exc)
                            ELSE IF IsRaise(AnalyzeQuality(pool[t].image, e.r.v))
                            THEN ExceptValueError(AnalyzeQuality(pool[t].image, e.r.v).exc)
                            ELSE Success]
    /\ UNCHANGED <<pc, algorithm, arrayVars, requestVars, cryptoVars>>
    /\ UNCHANGED <<image_file, embed_calls, encode_result, decode_algorithm, decode_result,
                   quality, parsed_header, window>>

\* two encode_async calls with the message 'A', no password, no compression
InitPool ==
    /\ pc = "pool"
    /\ algorithm \in AlgorithmNames
    /\ dct_self = FreshDCT /\ adaptive_self = FreshAdaptive
    /\ NoArrays
    /\ message = Str(<<65>>) /\ enc_password = "" /\ enc_method = "AES-256" /\ enc_level = 0
    /\ processed_message \in {o.out : o \in PrepareMessage(Str(<<65>>), "", "AES-256", 0, {})}
    /\ decode_password = "" /\ recovered = None /\ cipher_log = {}
    /\ image_file = NoArray /\ embed_calls = 0
    /\ encode_result = Pending /\ decode_result = Pending
    /\ decode_algorithm = "LSB"
    /\ quality = NoReport
    /\ parsed_header = None
    /\ window = NoWindow
    /\ pool \in [Tasks -> {[pc |-> "submitted", image |-> LoadImage(f),
                            stego |-> NoResult, result |-> Pending] : f \in PoolFiles}]

NextPool == \E t \in Tasks : PoolStart(t) \/ PoolFinish(t)

SpecPool == InitPool /\ [][NextPool]_vars

----------------------------------------------------------------------------
(* The decode tab of the main window.  decode_message, the timer slot        *)
(* _check_decode_completion and the callback on_decode_complete run on the   *)
(* GUI thread, one handler at a time; decode_task runs on a worker thread    *)
(* of the engine.  One decode future is outstanding at a time, so the        *)
(* futures of a request are numbered 1..window.futures in the order of the   *)
(* decode_async calls and decode_result is the result of the newest one.     *)

GuiShapes == {<<7, 7, 3>>, <<8, 8, 3>>}

GuiMessages == {Str(<<65>>), Str(<<72, 69, 76, 76, 79>>)}

\* the pictures the user may select: clean pictures, pictures written by a
\* successful encode of a message without password, and a file that cannot
\* be opened
GuiFiles ==
    {FlatCarrier(sh, 128) : sh \in GuiShapes}
    \cup {SaveImage(t.stego.v) :
             t \in {u \in {EncodeFrom(alg, FreshDCT, FreshAdaptive,
                                      LoadImage(FlatCarrier(sh, 128)), o.out, 0) :
                              alg \in AlgorithmNames, sh \in GuiShapes,
                              o \in UNION {PrepareMessage(m, "", "AES-256", 0, {}) :
                                              m \in GuiMessages}} :
                       u.result.success}}
    \cup {NoArray}

AutoDetect == "Auto-detect"

\* algorithms_to_try of decode_message
AlgorithmsToTry(selected_method) ==
    IF selected_method = AutoDetect THEN <<"LSB", "DCT", "DWT", "Adaptive LSB">>
    ELSE <<selected_method>>

\* future.done() of the k-th future of the request
FutureDone(k) == k < window.futures \/ (k = window.futures /\ pc = "decode_done")

\* decode_message: the click on the enabled decode button, an image path
\* being set
DecodeMessage ==
    /\ pc \in {"saved", "decode_submitted", "decode_done"}
    /\ window.decode_btn
    /\ IF window.decode_timer = "active"
       THEN /\ window' = [window EXCEPT !.message_box = "in_progress"]
            /\ UNCHANGED <<pc, decode_password, decode_algorithm, decode_result>>
       ELSE \E selected_method \in {AutoDetect} \cup AlgorithmNames, password \in Passwords :
              /\ window' = [decode_btn |-> FALSE, decode_timer |-> "active",
                            decode_future |-> 1, decode_callback |-> TRUE, futures |-> 1,
                            algorithms_to_try |-> AlgorithmsToTry(selected_method),
                            current_algorithm_index |-> 0, message_box |-> "none"]
              /\ decode_algorithm' = AlgorithmsToTry(selected_method)[1]
              /\ decode_password' = password
              /\ decode_result' = Pending
              /\ pc' = "decode_submitted"
    /\ UNCHANGED <<arrayVars, algoVars, requestVars>>
    /\ UNCHANGED <<processed_message, recovered, cipher_log>>
    /\ UNCHANGED <<image_file, embed_calls, encode_result, quality, parsed_header, pool>>

\* on_decode_complete called with the window w and the outcome of
\* self._decode_future.result(): the window it leaves, and whether it called
\* decode_async again
OnDecodeComplete(w, result) ==
    LET cleaned == [w EXCEPT !.decode_btn = TRUE, !.decode_timer = "none"]
        n == Len(w.algorithms_to_try)
    IN  IF result.state = "raised"
        THEN [window |-> [cleaned EXCEPT !.message_box = "error"], submitted |-> FALSE]
        ELSE IF result.success
        THEN [window |-> [cleaned EXCEPT !.message_box = "success"], submitted |-> FALSE]
        ELSE IF n > 1 /\ w.current_algorithm_index < n - 1
        THEN [window |-> [cleaned EXCEPT
                            !.current_algorithm_index = w.current_algorithm_index + 1,
                            !.futures = w.futures + 1,
                            !.decode_future = w.futures + 1,
                            !.decode_callback = TRUE,
                            !.decode_timer = "active"],
              submitted |-> TRUE]
        ELSE [window |-> [cleaned EXCEPT !.message_box = "error"], submitted |-> FALSE]

\* _check_decode_completion, the slot of the 100 ms timer, when the future is
\* done; when it is not, or when self._decode_future is None, the slot
\* changes nothing
CheckDecodeCompletion ==
    /\ window.decode_timer = "active"
    /\ window.decode_future # 0
    /\ FutureDone(window.decode_future)
    /\ \E c \in {IF window.decode_callback
                  THEN OnDecodeComplete([window EXCEPT !.decode_timer = "stopped"],
                                        decode_result)
                  ELSE [window |-> [window EXCEPT !.decode_timer = "stopped"],
                        submitted |-> FALSE]} :
          /\ window' = [c.window EXCEPT !.decode_future = 0, !.decode_callback = FALSE]
          /\ IF c.submitted
             THEN /\ decode_algorithm' =
                        c.window.algorithms_to_try[c.window.current_algorithm_index + 1]
                  /\ decode_result' = Pending
                  /\ pc' = "decode_submitted"
             ELSE UNCHANGED <<pc, decode_algorithm, decode_result>>
    /\ UNCHANGED <<arrayVars, algoVars, requestVars, cryptoVars>>
    /\ UNCHANGED <<image_file, embed_calls, encode_result, quality, parsed_header, pool>>

InitGui ==
    /\ pc = "saved"
    /\ NoArrays
    /\ message = None /\ enc_password = "" /\ enc_method = "AES-256" /\ enc_level = 0
    /\ NoCrypto
    /\ algorithm = "LSB" /\ dct_self = FreshDCT /\ adaptive_self = FreshAdaptive
    /\ image_file \in GuiFiles
    /\ embed_calls = 0
    /\ encode_result = Pending /\ decode_result = Pending
    /\ decode_algorithm = "LSB"
    /\ quality = NoReport
    /\ parsed_header = None
    /\ pool = <<>>
    /\ window = NoWindow

NextGui == DecodeMessage \/ DecodeTask \/ CheckDecodeCompletion

\* the step of the worker thread that ends a submitted task; in NextGui only
\* DecodeTask takes it, and DecodeTask is enabled whenever a task is submitted
TaskEnds == pc = "decode_submitted" /\ pc' = "decode_done"

\* the worker thread runs a submitted task to its end, and the event loop
\* delivers the timeouts of an active timer
SpecGui ==
    InitGui /\ [][NextGui]_vars /\ WF_pc(TaskEnds) /\ WF_vars(CheckDecodeCompletion)

----------------------------------------------------------------------------
(* C1: LSB round-trip. After embed and extract of a payload p with           *)
(* len(p) <= get_capacity(I), extract returns exactly the bytes of p.        *)
C1_LSBRoundTrip ==
    (pc = "extracted" /\ Len(PayloadBytes(secret_data)) <= capacity)
        => Utf8Encode(extracted.v) = PayloadBytes(secret_data)

(* C2: transform-domain round-trip. For DCT, DWT and Adaptive LSB, a payload  *)
(* p with len(p) <= get_capacity(I) is embedded without error and            *)
(* extract(embed(I, p), len(p)) returns exactly the bytes of p.              *)
C2_TransformRoundTrip ==
    (pc \in {"embed_raised", "extracted"} /\ Len(PayloadBytes(secret_data)) <= capacity)
        => /\ pc = "extracted"
           /\ ~IsRaise(extracted)
           /\ Utf8Encode(extracted.v) = PayloadBytes(secret_data)

(* C3: cipher round-trip. For AES-256, ChaCha20 and Fernet, every data and   *)
(* every password, encrypt returns a blob and decrypt of that blob with the  *)
(* same password returns exactly data, whatever salt and IV/nonce were       *)
(* drawn.                                                                    *)
C3_CipherRoundTrip ==
    enc_method \in Methods =>
        /\ pc # "encrypt_raised"
        /\ (pc = "decrypted" /\ decode_password = enc_password) => recovered = message

(* C4: engine end-to-end without password. For a carrier that loads and a   *)
(* message whose framed payload fits the LSB capacity, encode with password  *)
(* "" and algorithm LSB completes with success, and decode of the saved      *)
(* stego image with password "" and algorithm LSB completes with success     *)
(* and returns exactly the message.                                          *)
C4_EngineRoundTrip ==
    (image_file # NoArray /\ enc_password = "" /\ algorithm = "LSB") =>
        /\ (pc = "encode_done" /\ Len(processed_message.v) <= capacity)
               => encode_result.success
        /\ (pc = "decode_done" /\ decode_password = "" /\ decode_algorithm = "LSB")
               => decode_result.success /\ recovered = message

(* C5: framed-payload round-trip with the right password. For every message, *)
(* password, method in {AES-256, ChaCha20, Fernet} and compression level,    *)
(* _prepare_message returns a frame and _process_extracted_data of that      *)
(* frame with the same password returns exactly the message.                 *)
C5_FrameRoundTrip ==
    enc_method \in Methods =>
        /\ pc # "prepare_raised"
        /\ (pc = "processed" /\ decode_password = enc_password) => recovered = message

(* C6: a wrong password never yields a message. A frame encrypted with       *)
(* password pw under AES-256 or ChaCha20 and decoded with a non-empty        *)
(* password pw' # pw ends in a failure result, never in a success result.    *)
C6_WrongPasswordFails ==
    (/\ pc = "processed"
     /\ enc_method \in {"AES-256", "ChaCha20"}
     /\ enc_password # ""
     /\ decode_password \notin {"", enc_password})
        => decode_result.state = "done" /\ ~decode_result.success

(* C7: encrypted frame with no password. When the header has the encrypted   *)
(* flag set and the decode password is empty, decode ends in a failure; the  *)
(* ciphertext is never returned as a successfully decoded message.           *)
C7_EncryptedNoPasswordFails ==
    (/\ pc = "processed"
     /\ ParseHeader(processed_message).encrypted
     /\ decode_password = "")
        => decode_result.state = "done" /\ ~decode_result.success

(* C8: the authenticated suite detects a wrong key. Under Fernet, decrypt    *)
(* with a password other than the one of encrypt raises and returns no byte  *)
(* string, and the decode request it happens in ends in a tagged failure     *)
(* result.                                                                   *)
C8_FernetWrongKey ==
    (/\ pc = "processed"
     /\ enc_method = "Fernet"
     /\ enc_password # ""
     /\ decode_password \notin {"", enc_password})
        => /\ IsRaise(recovered)
           /\ decode_result.state = "done" /\ ~decode_result.success

(* C9: capacity is checked before any mutation. An encode request whose      *)
(* framed payload is capacity+1 bytes long ends in the capacity failure,     *)
(* with embed never called and the carrier as it was loaded; a framed        *)
(* payload of exactly capacity bytes is not rejected by the check, and embed *)
(* is called.                                                                *)
C9_CapacityCheckedFirst ==
    (pc = "encode_done" /\ capacity >= 0) =>
        /\ Len(processed_message.v) = capacity + 1
               => /\ encode_result = Failure("Message too large")
                  /\ embed_calls = 0
                  /\ stego = NoResult
                  /\ image = LoadImage(image_file)
        /\ Len(processed_message.v) = capacity
               => /\ encode_result # Failure("Message too large")
                  /\ embed_calls = 1

C9_Witness ==
    /\ pc = "encode_done"
    /\ algorithm = "LSB"
    /\ capacity = 14
    /\ Len(processed_message.v) = 15
    /\ encode_result = Failure("Message too large")

(* C10: LSB capacity formula. get_capacity of an H x W x C image is          *)
(* floor((H*W*C - 32)/8) floored at 0, hence 0 whenever H*W*C < 40.          *)
C10_LSBCapacityFormula ==
    pc # "start" =>
        LET n == NumSamples(image.shape)
        IN  /\ capacity >= 0
            /\ (n < 40 => capacity = 0)
            /\ (n >= 40 => 8 * capacity <= n - 32 /\ n - 32 < 8 * capacity + 8)

C10_Witness ==
    /\ pc = "sized"
    /\ NumSamples(image.shape) = 45
    /\ capacity = 1

(* C11: DCT capacity. get_capacity of an H x W carrier is floor((H*W)/64)    *)
(* bytes (64 for a 64 x 64 grayscale carrier).                                *)
C11_DCTCapacity ==
    (pc # "start" /\ algorithm = "DCT") =>
        capacity = (image.shape[1] * image.shape[2]) \div 64

(* C12: DWT capacity formula. get_capacity of an H x W x C image, H and W    *)
(* odd or even, is floor((ceil(H/2) * ceil(W/2) * C) / 8).                   *)
C12_DWTCapacity ==
    (pc # "start" /\ algorithm = "DWT") =>
        capacity = (CeilHalf(image.shape[1]) * CeilHalf(image.shape[2])
                        * Channels(image.shape)) \div 8

(* C13: no hidden data is an error. extract on an image into which nothing   *)
(* was embedded fails; in particular LSB extract fails, rather than return   *)
(* the bytes read so far, when the 4-zero-byte delimiter never appears in    *)
(* the LSB stream.                                                           *)
C13_NoHiddenDataFails ==
    pc = "extracted_clean" => IsRaise(extracted)

(* C14: identity quality. analyze_quality(I, I) reports psnr = +infinity,    *)
(* mse = 0 and mae = 0 for every image I; and whenever the reported mse is   *)
(* positive the psnr field is finite and equals 20*log10(255/sqrt(mse)).     *)
C14_IdentityQuality ==
    pc = "analyzed" =>
        /\ image = stego.v =>
              /\ quality.t = "dict"
              /\ quality.psnr.inf
              /\ quality.mse[1] = 0
              /\ quality.mae[1] = 0
        /\ (quality.t = "dict" /\ quality.mse[1] > 0) =>
              /\ ~quality.psnr.inf
              /\ quality.psnr.of = quality.mse

(* C15: header parsing rejects bad frames. _parse_header fails when fewer    *)
(* than 2 bytes are present or when byte 1, the cipher id, is not 0, 1 or 2; *)
(* an unknown cipher id is never mapped to a default cipher suite.           *)
C15_ParseRejectsBadFrames ==
    (pc = "parsed_raw" /\ (Len(extracted.v) < 2 \/ extracted.v[2] \notin {0, 1, 2}))
        => parsed_header.t = "raise"

(* the cipher id _create_header writes for a supported method *)
C16_MethodId ==
    CASE enc_method = "AES-256" -> 0
      [] enc_method = "ChaCha20" -> 1
      [] enc_method = "Fernet" -> 2

(* C16: frame header layout and round-trip. For every pair of flags and      *)
(* every method in {AES-256, ChaCha20, Fernet}, _create_header gives exactly *)
(* 2 bytes: byte 0 is encrypted + 2 * compressed, byte 1 is 0/1/2 for        *)
(* AES-256/ChaCha20/Fernet; _parse_header of the header followed by a body   *)
(* returns the same flags and method with header_size 2; and in a frame of   *)
(* _prepare_message the encrypted flag is set iff the body was encrypted and *)
(* the compressed flag iff the body was compressed.                          *)
C16_HeaderRoundTrip ==
    enc_method \in Methods =>
        /\ pc \in {"framed", "parsed"} =>
              /\ Len(processed_message.v) = 2 + Len(Utf8Encode(message.v))
              /\ processed_message.v[1] = (IF enc_password # "" THEN 1 ELSE 0)
                                              + (IF enc_level > 0 THEN 2 ELSE 0)
              /\ processed_message.v[2] = C16_MethodId
              /\ SliceFrom(processed_message.v, 2) = Utf8Encode(message.v)
        /\ pc = "parsed" =>
              /\ parsed_header.t = "dict"
              /\ parsed_header.encrypted = (enc_password # "")
              /\ parsed_header.compressed = (enc_level > 0)
              /\ parsed_header.encryption_method = enc_method
              /\ parsed_header.header_size = 2
        /\ pc \in {"prepared", "processed"} =>
              /\ processed_message.v[1] \in 0..3
              /\ processed_message.v[2] = C16_MethodId
              /\ (processed_message.v[1] % 2 = 1) = (cipher_log # {})
              /\ ((processed_message.v[1] \div 2) % 2 = 1) = (enc_level > 0)
              /\ cipher_log = {} =>
                    SliceFrom(processed_message.v, 2) =
                        IF enc_level > 0 THEN ZlibCompress(Utf8Encode(message.v), enc_level)
                        ELSE Utf8Encode(message.v)

C16_Witness ==
    /\ pc = "parsed"
    /\ enc_method = "Fernet" /\ enc_password # "" /\ enc_level = 0
    /\ Len(message.v) > 0
    /\ parsed_header.t = "dict"
    /\ parsed_header.encrypted /\ ~parsed_header.compressed
    /\ parsed_header.encryption_method = "Fernet"

(* C17: an unsupported cipher suite is an error. An encode request naming a  *)
(* cipher suite outside {AES-256, ChaCha20, Fernet} fails, whether or not a  *)
(* password is supplied; no frame is produced whose cipher id byte stands    *)
(* for a default suite substituted for the unknown name.                     *)
C17_UnsupportedCipherFails ==
    enc_method \notin Methods => pc \notin {"prepared", "processed"}

(* the length of the prefix a ciphertext blob of the suite starts with *)
C18_PrefixLen ==
    CASE enc_method = "AES-256" -> 32
      [] enc_method = "ChaCha20" -> 28
      [] enc_method = "Fernet" -> 16

(* C18: short ciphertext is rejected. decrypt of a blob shorter than the     *)
(* prefix of its suite (32 bytes for AES-256, 28 for ChaCha20, 16 for        *)
(* Fernet) fails with the error of a malformed input, a ValueError; it       *)
(* returns no byte string and fails with no other error.                     *)
C18_ShortCiphertextRejected ==
    (/\ pc = "blob_decrypted"
     /\ enc_method \in Methods
     /\ Len(processed_message.v) < C18_PrefixLen)
        => IsRaise(recovered) /\ recovered.exc = "ValueError"

(* C19: a single tagged result per request. Every task submitted through     *)
(* encode_async or decode_async completes with a result record tagged        *)
(* success=True or success=False; no failure escapes the task as an          *)
(* exception on the future.                                                  *)
C19_TaggedResult ==
    /\ pc = "encode_done" => encode_result.state = "done"
    /\ pc = "decode_done" => decode_result.state = "done"

(* C20: task isolation under concurrency. When two encode tasks using the    *)
(* same algorithm run concurrently on the worker pool, under every           *)
(* interleaving the result and the stego image of each task are those of the *)
(* task run alone, on a fresh engine.                                         *)
C20_TaskIsolation ==
    pc = "pool" =>
        \A t \in Tasks :
            pool[t].pc = "done" =>
                LET alone == EncodeFrom(algorithm, FreshDCT, FreshAdaptive,
                                        pool[t].image, processed_message, 0)
                IN  /\ pool[t].result = alone.result
                    /\ pool[t].stego = alone.stego

(* C21: algorithm operations are pure across a sequence of calls. The result *)
(* of extract(image, hint) depends only on its arguments: after an embed on  *)
(* the same instance, extract returns what a fresh instance returns for the  *)
(* same image and hint.                                                      *)
C21_PureAcrossCalls ==
    pc \in {"extracted", "extracted_default"} =>
        LET len == IF pc = "extracted" THEN Len(PayloadBytes(secret_data))
                   ELSE DefaultExpectedLength
        IN  CASE algorithm = "DCT" -> extracted = DCTExtract(FreshDCT, stego.v, len)[1]
              [] algorithm = "DWT" -> extracted = DWTExtract(stego.v)
              [] algorithm = "Adaptive LSB" ->
                    extracted = AdaptiveExtract(FreshAdaptive, stego.v, len)[1]

(* C22: sample range invariant. The image returned by embed has the shape of *)
(* the carrier and every sample lies in [0, 255].  A sample of an inverse    *)
(* transform lies within Idct2Spread of the coefficient at frequency (0, 0)  *)
(* of its channel.                                                           *)
C22_SampleRange ==
    (pc \in {"embedded", "extracted", "extracted_default"} /\ stego.t = "ndarray") =>
        LET arr == stego.v
            c == Channels(arr.shape)
        IN  /\ arr.shape = image.shape
            /\ arr.form = "values" => \A k \in 1..Len(arr.data) : arr.data[k] \in 0..255
            /\ arr.form = "idct2" =>
                  \A ch \in 1..c : /\ arr.data[ch] + Idct2Spread(arr, ch) >= 0
                                   /\ arr.data[ch] - Idct2Spread(arr, ch) <= 255

(* C23: detection report. detect_steganography sets suspicious_patterns =    *)
(* (deviation > 0.1) and confidence = min(2 * deviation, 1.0) in every case, *)
(* also when the image is not suspicious; confidence lies in [0, 1].         *)
C23_DetectionReport ==
    pc = "detected" =>
        LET dev == quality.lsb_analysis
            conf == quality.confidence
        IN  /\ quality.suspicious_patterns = (10 * dev[1] > dev[2])
            /\ conf[1] * dev[2] = Min(2 * dev[1], dev[2]) * conf[2]
            /\ 0 <= conf[1] /\ conf[1] <= conf[2]

(* C24: no silent truncation inside the algorithms. embed called directly    *)
(* with a payload longer than get_capacity of the carrier fails with the     *)
(* capacity error, a ValueError; it never returns an image.                  *)
C24_NoSilentTruncation ==
    (/\ pc \in {"embedded", "embed_raised"}
     /\ Len(PayloadBytes(secret_data)) > capacity)
        => stego.t = "raise" /\ stego.exc = "ValueError"

C27_CapacityAdmitsEmbed ==
    pc # "start" =>
        /\ capacity >= 0
        /\ capacity > 0 => 8 * capacity + 32 <= NumSamples(image.shape)
        /\ pc = "embed_raised" => Len(PayloadBytes(secret_data)) > capacity

(* C28: the reported capacity never over-promises. For every image and every *)
(* algorithm in {LSB, DCT, DWT, Adaptive LSB}, the capacity reported by      *)
(* get_image_capacity and by calculate_capacity is at most the capacity the  *)
(* engine enforces through the algorithm's get_capacity.                     *)
C28_ReportedCapacity ==
    (pc = "reported" /\ algorithm \in AlgorithmNames /\ capacity >= 0) =>
        /\ quality.image_capacity <= capacity
        /\ quality.calculated <= capacity

(* C29: the PSNR helper is exact on 8-bit data. For two uint8 arrays of one  *)
(* shape calculate_psnr returns +infinity only if the arrays are equal in    *)
(* every sample, and otherwise the mean it takes is the mean of the true     *)
(* squared differences over the integers, not reduced modulo 256.            *)
C29_PsnrExact ==
    pc = "psnr_done" =>
        /\ quality.psnr.inf => image = stego.v
        /\ ~quality.psnr.inf => quality.psnr.of = FloatSquaredMean(image, stego.v)

(* C30: auto-detect decode reaches a verdict. After a decode request in      *)
(* auto-detect mode, the timer's completion check eventually sees the        *)
(* newest future done and calls the completion callback for it: eventually a *)
(* success is displayed, or the error is reported once all four algorithms   *)
(* have failed, and no decode timer remains active; and no later decode      *)
(* request is refused as already in progress.                                *)
C30_AutoDetectVerdict ==
    /\ [](window.message_box # "in_progress")
    /\ []((window.decode_timer = "active" /\ Len(window.algorithms_to_try) = 4) =>
             <>(/\ window.message_box \in {"success", "error"}
                /\ window.decode_timer # "active"))

====
